---- MODULE Spec2Model ----
(***************************************************************************)
(* Data-quality scoring and improvement engine.                            *)
(*                                                                         *)
(* Quality Evaluator : utils/quality_checks.py                             *)
(* Quality Improver  : utils/data_quality_improver.py (DataQualityImprover)*)
(*                                                                         *)
(* A dataset (pandas DataFrame) is a record [cols, dtypes, rows]: the      *)
(* ordered column names, the dtype of every column, and the ordered rows,  *)
(* every row a function from the column names to cells.  A cell is a       *)
(* string, an integer, a float, a boolean or NaN (the missing marker of    *)
(* pandas).  Percentages and scores are kept exactly, as                   *)
(* fractions of hundredths of a percent: [nan, n, d] stands for n/d        *)
(* hundredths, and 66.67 is [nan |-> FALSE, n |-> 6667, d |-> 1].  The     *)
(* float NaN that numpy gives for 0/0 is [nan |-> TRUE, ...].              *)
(***************************************************************************)
EXTENDS Integers, Sequences, FiniteSets, TLC

VARIABLES df, inp, kept, op, log, summary, report, previous, before, now, steps, budget, etl

vars == <<df, inp, kept, op, log, summary, report, previous, before, now, steps, budget, etl>>

\* Bounds of the model.
MaxRows == 3
MaxSteps == 1
MaxTime == 1
MaxCalls == 2
MaxSessionRows == 2

----------------------------------------------------------------------------
(* Cells and datasets *)

NaN == [k |-> "nan", s |-> "", n |-> 0]
Str(x) == [k |-> "str", s |-> x, n |-> 0]
Num(i) == [k |-> "num", s |-> "", n |-> i]
Float(i) == [k |-> "float", s |-> "", n |-> i]
Bool(b) == [k |-> "bool", s |-> "", n |-> IF b THEN 1 ELSE 0]

isnull(c) == c.k = "nan"

Range(q) == {q[i] : i \in DOMAIN q}

Rows(d) == DOMAIN d.rows

Column(d, col) == [i \in Rows(d) |-> d.rows[i][col]]

HasColumn(d, col) == col \in Range(d.cols)

\* Number of rows whose index is in S.
CountRows(S) == Cardinality(S)

\* The rows of d whose index is in keep, in their original order.
RECURSIVE SelectRows(_, _, _)
SelectRows(rows, keep, i) ==
    IF i > Len(rows) THEN <<>>
    ELSE (IF i \in keep THEN <<rows[i]>> ELSE <<>>) \o SelectRows(rows, keep, i + 1)

\* Position of column col in d.cols.
ColumnIndex(d, col) == CHOOSE k \in DOMAIN d.cols : d.cols[k] = col

\* df[col].dtype: the dtype the column was given when it was read or last
\* assigned; an operation that drops rows or fills values keeps it.
dtype(d, col) == d.dtypes[ColumnIndex(d, col)]

\* d with the cells of column col replaced by cells[i] and its dtype by dt.
WithColumn(d, col, dt, cells) ==
    [d EXCEPT !.dtypes[ColumnIndex(d, col)] = dt,
              !.rows = [i \in Rows(d) |-> [d.rows[i] EXCEPT ![col] = cells[i]]]]

IsNumber(c) == c.k \in {"num", "float"}

\* A value as it is held by a column of dtype dt: a number put in a float64
\* column is a float.
Held(c, dt) == IF dt = "float64" /\ c.k = "num" THEN Float(c.n) ELSE c

\* The dtype of a column of dtype dt after value c was put in some of its
\* entries: a string in a numeric column makes it an object column.
Upcast(dt, c) ==
    IF dt \in {"int64", "float64"} /\ ~(IsNumber(c) \/ c.k = "nan") THEN "object" ELSE dt

\* The numbers of the model, and the strings that
\* pd.to_numeric(errors='coerce') parses to one of them: "12", "12.0".
Numbers == -60..60

\* pd.to_numeric(series, errors='coerce') on one cell of an object column:
\* "12" parses to an integer, "12.0" to a float, other text to NaN.
to_numeric(c) ==
    IF c.k = "str"
    THEN IF \E n \in Numbers : c.s = ToString(n)
         THEN Num(CHOOSE n \in Numbers : c.s = ToString(n))
         ELSE IF \E n \in Numbers : c.s = ToString(n) \o ".0"
         THEN Float(CHOOSE n \in Numbers : c.s = ToString(n) \o ".0")
         ELSE NaN
    ELSE c

\* pd.to_numeric(series, errors='coerce').notna() on one non-missing cell.
numeric_convertible(c) ==
    \/ IsNumber(c)
    \/ c.k = "bool"
    \/ c.k = "str" /\ to_numeric(c) # NaN

----------------------------------------------------------------------------
(* Scores: exact fractions of hundredths of a percent *)

NaNScore == [nan |-> TRUE, n |-> 0, d |-> 1]
Fin(v) == [nan |-> FALSE, n |-> v, d |-> 1]
Frac(a, b) == [nan |-> FALSE, n |-> a, d |-> b]
Hundred == 100 * 100

\* numpy's round(x, 2) of a / b hundredths (a >= 0, b > 0): to the nearest
\* hundredth, a tie to the even one.
round2(x) ==
    LET q == x.n \div x.d
        r == x.n % x.d
        RoundHalfEven == IF 2 * r > x.d \/ (2 * r = x.d /\ q % 2 = 1) THEN q + 1 ELSE q
    IN  IF x.nan THEN NaNScore ELSE Fin(RoundHalfEven)

\* (count / total * 100).round(2); 0 / 0 is NaN.
Percentage(count, total) ==
    IF total = 0 THEN NaNScore ELSE round2(Frac(count * Hundred, total))

----------------------------------------------------------------------------
(* Quality Evaluator *)

\* df[columns] raises KeyError when a listed column is not in the frame.
check_completeness(d, columns) ==
    LET total_rows == Len(d.rows)
        missing_counts(col) == CountRows({i \in Rows(d) : isnull(d.rows[i][col])})
        missing_percentages(col) == Percentage(missing_counts(col), total_rows)
        Complement(p) == IF p.nan THEN NaNScore ELSE Fin(Hundred - p.n)
    IN  IF \E col \in columns : ~HasColumn(d, col) THEN [raised |-> "KeyError"]
        ELSE
        [col \in columns |->
            [missing_count |-> missing_counts(col),
             missing_percentage |-> missing_percentages(col),
             complete_count |-> total_rows - missing_counts(col),
             completeness_score |-> Complement(missing_percentages(col))]]

\* subset=None (the default: the full row) and subset=[...]
None == [none |-> TRUE, cols |-> {}]

\* Key of a row: its cells on the subset columns.
KeyCols(d, subset) == IF subset.none THEN Range(d.cols) ELSE subset.cols

RowKey(d, subset, i) == [c \in KeyCols(d, subset) |-> d.rows[i][c]]

\* Mutant of duplicated: keep=False, every row whose key occurs twice is marked.
duplicated_keep_false(d, subset) ==
    {i \in Rows(d) : \E j \in Rows(d) \ {i} : RowKey(d, subset, j) = RowKey(d, subset, i)}

\* Mutant of duplicated: only the second occurrence of a key is marked.
duplicated_second_only(d, subset) ==
    {i \in Rows(d) :
        Cardinality({j \in 1..(i - 1) : RowKey(d, subset, j) = RowKey(d, subset, i)}) = 1}

\* df.duplicated(subset, keep='first'): the rows equal on the key to an
\* earlier row (NaN equals NaN).
duplicated(d, subset) ==
    {i \in Rows(d) : \E j \in 1..(i - 1) : RowKey(d, subset, j) = RowKey(d, subset, i)}

check_duplicates(d, subset) ==
    LET total_rows == Len(d.rows)
        unique_duplicates == CountRows(duplicated(d, subset))
    IN  [total_rows |-> total_rows,
         duplicate_count |-> unique_duplicates,
         duplicate_percentage |-> Percentage(unique_duplicates, total_rows),
         unique_rows |-> total_rows - unique_duplicates,
         uniqueness_score |-> Percentage(total_rows - unique_duplicates, total_rows)]

\* series = df[column].dropna()
NonNull(d, col) == {i \in Rows(d) : ~isnull(d.rows[i][col])}

check_format_consistency(d, column) ==
    IF ~HasColumn(d, column) THEN [error |-> "Column not found"]
    ELSE IF NonNull(d, column) = {} THEN [error |-> "No data to check"]
    ELSE LET series == NonNull(d, column)
             numeric_consistency ==
                 CountRows({i \in series : numeric_convertible(d.rows[i][column])})
         IN  [total_non_null |-> CountRows(series),
              numeric_convertible |-> numeric_consistency,
              format_consistency_score |->
                  Percentage(numeric_consistency, CountRows(series))]

\* series.isin(valid_codes) on one cell: the codes are strings, a number is
\* no member.
isin(c, valid_codes) == c.k = "str" /\ c.s \in valid_codes

\* series.unique(): the distinct values in order of first appearance.
RECURSIVE UniqueFrom(_, _, _, _)
UniqueFrom(d, col, i, seen) ==
    IF i > Len(d.rows) THEN <<>>
    ELSE LET c == d.rows[i][col]
         IN  IF isnull(c) \/ c \in seen THEN UniqueFrom(d, col, i + 1, seen)
             ELSE <<c>> \o UniqueFrom(d, col, i + 1, seen \cup {c})

unique(d, col) == UniqueFrom(d, col, 1, {})

check_codification_consistency(d, column, valid_codes) ==
    IF ~HasColumn(d, column) THEN [error |-> "Column not found"]
    ELSE IF NonNull(d, column) = {} THEN [error |-> "No data to check"]
    ELSE LET series == NonNull(d, column)
             unique_values == unique(d, column)
             valid(c) == IF valid_codes # {} THEN isin(c, valid_codes)
                         ELSE numeric_convertible(c)
             valid_count == CountRows({i \in series : valid(d.rows[i][column])})
         IN  [total_values |-> CountRows(series),
              unique_values |-> Len(unique_values),
              valid_codes_count |-> valid_count,
              invalid_codes_count |-> CountRows(series) - valid_count,
              invalid_values |-> SelectSeq(unique_values, LAMBDA c : ~valid(c)),
              codification_score |-> Percentage(valid_count, CountRows(series))]

\* Sum of the scores f[c] for c in S, as a fraction; NaN if one of them is.
RECURSIVE SumScores(_, _)
SumScores(f, S) ==
    IF S = {} THEN Fin(0)
    ELSE LET c == CHOOSE x \in S : TRUE
             rest == SumScores(f, S \ {c})
         IN  IF f[c].nan \/ rest.nan THEN NaNScore
             ELSE Frac(f[c].n * rest.d + rest.n * f[c].d, f[c].d * rest.d)

\* np.mean(scores) if scores else 0
MeanScores(f) ==
    IF DOMAIN f = {} THEN Fin(0)
    ELSE LET s == SumScores(f, DOMAIN f)
         IN  IF s.nan THEN NaNScore ELSE Frac(s.n, s.d * Cardinality(DOMAIN f))

\* Mutant of WeightedSum: the four weights all 0.25.
WeightedSumEqualWeights(a, u, f, c) ==
    IF a.nan \/ u.nan \/ f.nan \/ c.nan THEN NaNScore
    ELSE Frac(25 * a.n * u.d * f.d * c.d + 25 * u.n * a.d * f.d * c.d
              + 25 * f.n * a.d * u.d * c.d + 25 * c.n * a.d * u.d * f.d,
              100 * a.d * u.d * f.d * c.d)

\* avg_completeness * 0.3 + uniqueness_score * 0.25 + avg_format_score * 0.25
\* + avg_codification_score * 0.20, exactly.
WeightedSum(a, u, f, c) ==
    IF a.nan \/ u.nan \/ f.nan \/ c.nan THEN NaNScore
    ELSE Frac(30 * a.n * u.d * f.d * c.d + 25 * u.n * a.d * f.d * c.d
              + 25 * f.n * a.d * u.d * c.d + 20 * c.n * a.d * u.d * f.d,
              100 * a.d * u.d * f.d * c.d)

\* score >= t percent is AtLeast(t) (a comparison with NaN is false)
get_quality_level(score) ==
    LET AtLeast(t) == ~score.nan /\ score.n >= t * 100 * score.d
    IN  IF AtLeast(90) THEN "Excellent"
        ELSE IF AtLeast(80) THEN "Good"
        ELSE IF AtLeast(70) THEN "Fair"
        ELSE IF AtLeast(60) THEN "Poor"
        ELSE "Very Poor"

calculate_data_quality_score(completeness_report, duplicates_report, format_reports, codification_reports) ==
    LET Get(r, field) == IF field \in DOMAIN r THEN r[field] ELSE Fin(0)
        avg_completeness ==
            MeanScores([c \in DOMAIN completeness_report |->
                           completeness_report[c].completeness_score])
        uniqueness_score == Get(duplicates_report, "uniqueness_score")
        avg_format_score ==
            MeanScores([c \in DOMAIN format_reports |->
                           Get(format_reports[c], "format_consistency_score")])
        avg_codification_score ==
            MeanScores([c \in DOMAIN codification_reports |->
                           Get(codification_reports[c], "codification_score")])
        overall_score == WeightedSum(avg_completeness, uniqueness_score,
                                     avg_format_score, avg_codification_score)
    IN  [completeness_score |-> round2(avg_completeness),
         uniqueness_score |-> round2(uniqueness_score),
         format_score |-> round2(avg_format_score),
         codification_score |-> round2(avg_codification_score),
         overall_quality_score |-> round2(overall_score),
         quality_level |-> get_quality_level(overall_score)]

CSPValidCodes == {"1", "2", "3", "4"}

\* datetime.now().isoformat(), pd.Timestamp.now(): the reading of the clock.
timestamp == now

generate_quality_report(d, source_name) ==
    LET completeness == check_completeness(d, Range(d.cols))
        duplicates == check_duplicates(d, None)
        format_cols == {col \in Range(d.cols) :
                           \/ dtype(d, col) \in {"int64", "float64"}
                           \/ col \in {"CSP", "ID_CSP", "NB_KW_Jour"}}
        format_reports == [col \in format_cols |-> check_format_consistency(d, col)]
        codification_reports ==
            [col \in Range(d.cols) \cap {"CSP"} |->
                check_codification_consistency(d, col, CSPValidCodes)]
    IN  [source_name |-> source_name,
         timestamp |-> timestamp,
         dataset_info |-> [total_rows |-> Len(d.rows),
                           total_columns |-> Len(d.cols),
                           columns |-> d.cols],
         completeness |-> completeness,
         duplicates |-> duplicates,
         format_consistency |-> format_reports,
         codification_consistency |-> codification_reports,
         quality_score |-> calculate_data_quality_score(
             completeness, duplicates, format_reports, codification_reports)]

\* json.dump(report, f) raises TypeError on a value that is no Python
\* value: invalid_values holds the values of the column as numpy gives them,
\* numpy.int64 when the column is int64 (a numpy.float64 is a float).
TypeError == [raised |-> "TypeError"]

json_dump_raises(d, rep) ==
    \E col \in DOMAIN rep.codification_consistency :
        /\ dtype(d, col) = "int64"
        /\ "invalid_values" \in DOMAIN rep.codification_consistency[col]
        /\ rep.codification_consistency[col].invalid_values # <<>>

\* generate_quality_report(df, source_name, output_path): the report is
\* written to output_path before it is returned.
generate_quality_report_to_path(d, source_name) ==
    LET rep == generate_quality_report(d, source_name)
    IN  IF json_dump_raises(d, rep) THEN TypeError ELSE rep

----------------------------------------------------------------------------
(* Quality Improver *)

\* Mutant of log_improvement: the entry starts a new list.
log_improvement_fresh(lg, action, details) ==
    <<[action |-> action, details |-> details, timestamp |-> timestamp]>>

\* log_improvement(action, details): the entry appended to improvement_log
\* (details holds the values the message interpolates).
log_improvement(lg, action, details) ==
    Append(lg, [action |-> action, details |-> details, timestamp |-> timestamp])

\* Outcome of one turn of the loop of a method on the content d of its
\* frame: the content after the turn, the log, and whether the turn raised.
Returned(d, lg) == [df |-> d, log |-> lg, raised |-> FALSE]
Raised(d, lg) == [df |-> d, log |-> lg, raised |-> TRUE]

\* The frames of a call.  A frame is an object: "arg" is the one the caller
\* passed, "own" one made during the call.  df_improved is the name the
\* method assigns through; on entry the only frame is the caller's, with
\* content d.
Passed(d) == [df_improved |-> "arg", frames |-> [o \in {"arg"} |-> d]]

\* df_improved = <an expression that makes a frame>: a new object with
\* content d, and the name bound to it.
New(w, d) ==
    [df_improved |-> "own",
     frames |-> [o \in {"arg", "own"} |-> IF o = "own" THEN d ELSE w.frames["arg"]]]

\* Mutant of copy: df_improved = df, the name is bound to the caller's frame.
copy_alias(w) == w

\* df_improved = df.copy(): a frame of its own with the content of the
\* caller's.
copy(w) == New(w, w.frames["arg"])

\* The content of the frame df_improved names.
Frame(w) == w.frames[w.df_improved]

\* An assignment in place (df_improved[column] = ..., df_improved[column]
\* .fillna(..., inplace=True), df_improved.loc[mask, column] = ...): the
\* object df_improved names gets content d, whoever else holds that object.
Assign(w, d) == [w EXCEPT !.frames[w.df_improved] = d]

\* The end of a call: the frame returned (df_improved), the log, whether the
\* call raised, and the caller's frame as the call leaves it.
Called(w, lg, raised) ==
    [df |-> Frame(w), log |-> lg, raised |-> raised, input |-> w.frames["arg"]]

\* Mutant of drop_duplicates: keep='last'.
drop_duplicates_keep_last(d, subset) ==
    [d EXCEPT !.rows = SelectRows(d.rows,
        {i \in Rows(d) : \A j \in Rows(d) :
            j > i => RowKey(d, subset, j) # RowKey(d, subset, i)}, 1)]

\* Mutant of drop_duplicates: keep=False, every row of a repeated key goes.
drop_duplicates_keep_none(d, subset) ==
    [d EXCEPT !.rows = SelectRows(d.rows,
        {i \in Rows(d) : \A j \in Rows(d) \ {i} :
            RowKey(d, subset, j) # RowKey(d, subset, i)}, 1)]

\* df.drop_duplicates(subset, keep='first')
drop_duplicates(d, subset) ==
    [d EXCEPT !.rows = SelectRows(d.rows, Rows(d) \ duplicated(d, subset), 1)]

\* Mutant of remove_duplicates: the entry is logged whatever the count.
remove_duplicates_always_logged(d, lg, subset) ==
    LET w == New(Passed(d), drop_duplicates(d, subset))
    IN  Called(w, log_improvement(lg, "duplicates",
                      <<Len(d.rows) - Len(Frame(w).rows), subset, "first">>), FALSE)

remove_duplicates(d, lg, subset) ==
    LET original_count == Len(d.rows)
        w == New(Passed(d), drop_duplicates(d, subset))
        duplicates_removed == original_count - Len(Frame(w).rows)
    IN  IF duplicates_removed > 0
        THEN Called(w, log_improvement(lg, "duplicates",
                                       <<duplicates_removed, subset, "first">>), FALSE)
        ELSE Called(w, lg, FALSE)

\* Mutant of fillna: only the first missing entry is filled (limit=1).
fillna_first_only(d, col, fill_value) ==
    LET dt == IF NonNull(d, col) = Rows(d) THEN dtype(d, col)
              ELSE Upcast(dtype(d, col), fill_value)
    IN  WithColumn(d, col, dt, [i \in Rows(d) |->
            IF isnull(d.rows[i][col]) /\ \A j \in 1..(i - 1) : ~isnull(d.rows[j][col])
            THEN Held(fill_value, dt)
            ELSE d.rows[i][col]])

\* series.fillna(fill_value): a NaN fill value fills nothing; a string that
\* fills a float64 column makes it an object column.
fillna(d, col, fill_value) ==
    LET dt == IF NonNull(d, col) = Rows(d) THEN dtype(d, col)
              ELSE Upcast(dtype(d, col), fill_value)
    IN  WithColumn(d, col, dt, [i \in Rows(d) |->
            IF isnull(d.rows[i][col]) THEN Held(fill_value, dt) ELSE d.rows[i][col]])

\* series.fillna(method='ffill'): the nearest preceding non-missing value.
RECURSIVE LastValid(_, _, _)
LastValid(d, col, i) ==
    IF i = 0 THEN NaN
    ELSE IF ~isnull(d.rows[i][col]) THEN d.rows[i][col]
    ELSE LastValid(d, col, i - 1)

\* Mutant of ffill: a missing entry gets the first value of the column
\* before it, not the nearest.
ffill_first_value(d, col) ==
    [d EXCEPT !.rows = [i \in Rows(d) |->
        IF isnull(d.rows[i][col]) /\ \E j \in 1..i : ~isnull(d.rows[j][col])
        THEN [d.rows[i] EXCEPT ![col] =
                 d.rows[CHOOSE j \in 1..i :
                            /\ ~isnull(d.rows[j][col])
                            /\ \A h \in 1..(j - 1) : isnull(d.rows[h][col])][col]]
        ELSE d.rows[i]]]

ffill(d, col) ==
    [d EXCEPT !.rows = [i \in Rows(d) |->
        [d.rows[i] EXCEPT ![col] = LastValid(d, col, i)]]]

RECURSIVE SumCells(_, _, _)
SumCells(d, col, S) ==
    IF S = {} THEN 0
    ELSE LET i == CHOOSE x \in S : TRUE
         IN  d.rows[i][col].n + SumCells(d, col, S \ {i})

\* series.mean() is defined on numbers (NaN skipped); on strings it raises.
MeanRaises(d, col) == \E i \in NonNull(d, col) : d.rows[i][col].k = "str"

\* series.mean(): a float, NaN when no value is left.  The numbers of the
\* model are chosen so that the quotient is whole.
mean(d, col) ==
    IF NonNull(d, col) = {} THEN NaN
    ELSE Float(SumCells(d, col, NonNull(d, col)) \div Cardinality(NonNull(d, col)))

\* The strings of the model in Python's order (sort order of series.mode()).
SortedStrings ==
    <<"", "-12", "-12.0", "0", "0.0", "1", "1.0", "12", "12.0", "2", "3", "4", "9",
      "CADRE", "Cadre", "INCONNU", "NAN", "Nan", "UNKNOWN", "cadre", "employe", "nan">>

CellLess(a, b) ==
    LET Rank(s) == CHOOSE i \in DOMAIN SortedStrings : SortedStrings[i] = s
    IN  IF a.k = "str" /\ b.k = "str" THEN Rank(a.s) < Rank(b.s)
        ELSE IF a.k # "str" /\ b.k # "str" THEN a.n < b.n
        ELSE a.k # "str"

\* series.mode().iloc[0] if len(series.mode()) > 0 else 'UNKNOWN': the most
\* frequent non-missing value, the smallest one when several are.
mode(d, col) ==
    LET values == {d.rows[i][col] : i \in NonNull(d, col)}
        count(v) == Cardinality({i \in Rows(d) : d.rows[i][col] = v})
        modes == {v \in values : \A w \in values : count(w) <= count(v)}
    IN  IF values = {} THEN Str("UNKNOWN")
        ELSE CHOOSE v \in modes : \A w \in modes \ {v} : CellLess(v, w)

\* Mutant of CustomValues: the prefix stays in the fill value.
CustomValuesWithPrefix ==
    [custom_0 |-> "custom_0", custom_INCONNU |-> "custom_INCONNU",
     custom_ADRESSE_INCONNUE |-> "custom_ADRESSE_INCONNUE",
     custom_RUE_INCONNUE |-> "custom_RUE_INCONNUE"]

\* strategy.startswith('custom_') and strategy.replace('custom_', ''), on the
\* strategy tags of the model.
CustomValues ==
    [custom_0 |-> "0", custom_INCONNU |-> "INCONNU",
     custom_ADRESSE_INCONNUE |-> "ADRESSE_INCONNUE",
     custom_RUE_INCONNUE |-> "RUE_INCONNUE"]

\* One turn of the loop of improve_completeness on (column, strategy).
improve_column(d, lg, column, strategy) ==
    IF ~HasColumn(d, column) THEN Returned(d, lg)
    ELSE LET missing_count == CountRows(Rows(d) \ NonNull(d, column))
             logged == log_improvement(lg, "completeness",
                                       <<column, missing_count, strategy>>)
         IN  IF missing_count = 0 THEN Returned(d, lg)
             ELSE IF strategy = "mean"
                  THEN IF MeanRaises(d, column) THEN Raised(d, lg)
                       ELSE Returned(fillna(d, column, mean(d, column)), logged)
             ELSE IF strategy = "mode"
                  THEN Returned(fillna(d, column, mode(d, column)), logged)
             ELSE IF strategy = "forward_fill"
                  THEN Returned(ffill(d, column), logged)
             ELSE IF strategy \in DOMAIN CustomValues
                  THEN Returned(fillna(d, column, Str(CustomValues[strategy])), logged)
             ELSE Returned(d, logged)

\* strategies: the (column, strategy) items of the dict, in its order.
RECURSIVE improve_from(_, _, _, _)
improve_from(w, lg, strategies, i) ==
    IF i > Len(strategies) THEN Called(w, lg, FALSE)
    ELSE LET r == improve_column(Frame(w), lg, strategies[i][1], strategies[i][2])
         IN  IF r.raised THEN Called(Assign(w, r.df), r.log, TRUE)
             ELSE improve_from(Assign(w, r.df), r.log, strategies, i + 1)

improve_completeness(d, lg, strategies) ==
    improve_from(copy(Passed(d)), lg, strategies, 1)

\* series.astype(str) on one cell: str(value), "12" for an integer, "12.0"
\* for a float, "nan" for NaN.
astype_str(c) ==
    IF c.k = "str" THEN c
    ELSE IF c.k = "nan" THEN Str("nan")
    ELSE IF c.k = "bool" THEN Str(IF c.n = 1 THEN "True" ELSE "False")
    ELSE IF c.k = "float" THEN Str(ToString(c.n) \o ".0")
    ELSE Str(ToString(c.n))

\* series.replace(mapping) on one string cell: one pass, values not a key stay.
replace(c, mapping) == IF c.s \in DOMAIN mapping THEN Str(mapping[c.s]) ELSE c

\* One turn of the loop of normalize_codification on (column, mapping).
normalize_column(d, lg, column, mapping) ==
    IF ~HasColumn(d, column) THEN Returned(d, lg)
    ELSE LET original_values ==
                 Range(unique(d, column))
                     \cup (IF NonNull(d, column) # Rows(d) THEN {NaN} ELSE {})
             df_improved ==
                 WithColumn(d, column, "object", [i \in Rows(d) |->
                     replace(astype_str(d.rows[i][column]), mapping)])
             unmapped == {v \in original_values :
                              ~(v.k = "str" /\ v.s \in DOMAIN mapping)}
         IN  IF unmapped # {}
             THEN Returned(df_improved,
                           log_improvement(lg, "codification",
                               <<column, Cardinality(DOMAIN mapping), unmapped>>))
             ELSE Returned(df_improved,
                           log_improvement(lg, "codification",
                               <<column, Cardinality(DOMAIN mapping)>>))

RECURSIVE normalize_from(_, _, _, _)
normalize_from(w, lg, rules, i) ==
    IF i > Len(rules) THEN Called(w, lg, FALSE)
    ELSE LET r == normalize_column(Frame(w), lg, rules[i][1], rules[i][2])
         IN  normalize_from(Assign(w, r.df), r.log, rules, i + 1)

normalize_codification(d, lg, codification_rules) ==
    normalize_from(copy(Passed(d)), lg, codification_rules, 1)

\* The words of the model in lower case, title case and upper case; a string
\* without letter is its own lower, title and upper case.
Cased(str, form) ==
    LET Words ==
            {<<"cadre", "Cadre", "CADRE">>, <<"employe", "Employe", "EMPLOYE">>,
             <<"nan", "Nan", "NAN">>, <<"inconnu", "Inconnu", "INCONNU">>,
             <<"unknown", "Unknown", "UNKNOWN">>, <<"true", "True", "TRUE">>,
             <<"false", "False", "FALSE">>}
    IN  IF \E w \in Words : str \in Range(w)
        THEN (CHOOSE w \in Words : str \in Range(w))[form]
        ELSE str

\* series.str.lower(), .str.title(), .str.upper() on one string.
lower(str) == Cased(str, 1)
title(str) == Cased(str, 2)
upper(str) == Cased(str, 3)

\* series.str.strip() on one string.
strip(str) ==
    LET Padded == [x \in {" 1", "1 ", " cadre", "cadre "} |->
                      IF x \in {" 1", "1 "} THEN "1" ELSE "cadre"]
    IN  IF str \in DOMAIN Padded THEN Padded[str] ELSE str

\* series.str.replace(pattern, replacement, regex=True) on one string, for
\* the patterns that match one whole string.
str_replace(str, pattern, replacement) ==
    LET WholeString ==
            [x \in {"^cadre$", "^nan$"} |-> IF x = "^cadre$" THEN "cadre" ELSE "nan"]
    IN  IF pattern \in DOMAIN WholeString /\ str = WholeString[pattern]
        THEN replacement
        ELSE str

\* A format rule: one of the names, or a dict with 'regex' and 'replacement'.
FormatRule(kind) == [kind |-> kind, regex |-> "", replacement |-> ""]
RegexRule(pattern, replacement) ==
    [kind |-> "regex", regex |-> pattern, replacement |-> replacement]

TextRules == {"title_case", "upper_case", "lower_case", "clean_spaces", "regex"}

\* The dtype rule gives a column: the text rules go through astype(str);
\* pd.to_numeric(series, errors='coerce') returns a numeric column as it is
\* and makes an object column int64 when every entry parses to an integer,
\* float64 otherwise.
standardize_dtype(d, col, rule) ==
    LET numeric_dtype ==
            IF dtype(d, col) \in {"int64", "float64"} THEN dtype(d, col)
            ELSE IF \A i \in Rows(d) : to_numeric(d.rows[i][col]).k \in {"num", "bool"}
            THEN "int64"
            ELSE "float64"
    IN  IF rule.kind \in TextRules THEN "object"
        ELSE IF rule.kind = "numeric" THEN numeric_dtype
        ELSE dtype(d, col)

\* The cell that rule gives from cell c, in a column that gets dtype dt.
standardize_cell(c, dt, rule) ==
    IF rule.kind = "title_case" THEN Str(title(astype_str(c).s))
    ELSE IF rule.kind = "upper_case" THEN Str(upper(astype_str(c).s))
    ELSE IF rule.kind = "lower_case" THEN Str(lower(astype_str(c).s))
    ELSE IF rule.kind = "numeric" THEN Held(to_numeric(c), dt)
    ELSE IF rule.kind = "clean_spaces" THEN Str(strip(astype_str(c).s))
    ELSE IF rule.kind = "regex"
    THEN Str(str_replace(astype_str(c).s, rule.regex, rule.replacement))
    ELSE c

\* Mutant of standardize_column: a column the dataset does not have is logged
\* as standardized.
standardize_column_absent_logged(d, lg, column, rule) ==
    LET df_improved ==
            WithColumn(d, column, standardize_dtype(d, column, rule), [i \in Rows(d) |->
                standardize_cell(d.rows[i][column],
                                 standardize_dtype(d, column, rule), rule)])
    IN  IF ~HasColumn(d, column)
        THEN Returned(d, log_improvement(lg, "format", <<column, rule>>))
        ELSE Returned(df_improved, log_improvement(lg, "format", <<column, rule>>))

\* One turn of the loop of standardize_format on (column, rule).
standardize_column(d, lg, column, rule) ==
    IF ~HasColumn(d, column) THEN Returned(d, lg)
    ELSE LET dt == standardize_dtype(d, column, rule)
             df_improved ==
                 WithColumn(d, column, dt, [i \in Rows(d) |->
                     standardize_cell(d.rows[i][column], dt, rule)])
         IN  Returned(df_improved, log_improvement(lg, "format", <<column, rule>>))

RECURSIVE standardize_from(_, _, _, _)
standardize_from(w, lg, format_rules, i) ==
    IF i > Len(format_rules) THEN Called(w, lg, FALSE)
    ELSE LET r == standardize_column(Frame(w), lg, format_rules[i][1], format_rules[i][2])
         IN  standardize_from(Assign(w, r.df), r.log, format_rules, i + 1)

standardize_format(d, lg, format_rules) ==
    standardize_from(copy(Passed(d)), lg, format_rules, 1)

\* Whether df.groupby(group_by)[agg_column].<method>() raises: the mean of a
\* group holding a string, the sum of a group holding a string and a number.
\* GroupOf(i) is the rows of the group of row i; a row with a missing key is
\* in no group, and without a group nothing is computed.
AggregationRaises(d, group_by, agg_column, method) ==
    LET GroupOf(i) ==
            {j \in Rows(d) :
                \A k \in DOMAIN group_by :
                    /\ ~isnull(d.rows[j][group_by[k]])
                    /\ d.rows[j][group_by[k]] = d.rows[i][group_by[k]]}
    IN  IF method = "mean"
        THEN \E i \in Rows(d) : \E j \in GroupOf(i) : d.rows[j][agg_column].k = "str"
        ELSE IF method = "sum"
        THEN \E i \in Rows(d) : \E j, k \in GroupOf(i) :
                 /\ d.rows[j][agg_column].k = "str"
                 /\ d.rows[k][agg_column].k \in {"num", "float", "bool"}
        ELSE FALSE

\* One turn of the loop of handle_granularity_issues; the aggregate is
\* computed and dropped.
aggregate_rule(d, lg, rule_name, rule_config) ==
    LET group_by == rule_config.group_by
        agg_column == rule_config.agg_column
        agg_method == rule_config.method
    IN  IF ~(\A col \in Range(group_by) \cup {agg_column} : HasColumn(d, col))
        THEN Returned(d, lg)
        ELSE IF AggregationRaises(d, group_by, agg_column, agg_method)
        THEN Raised(d, lg)
        ELSE Returned(d, log_improvement(lg, "granularity",
                          <<rule_name, agg_method, agg_column, group_by>>))

RECURSIVE aggregate_from(_, _, _, _)
aggregate_from(w, lg, aggregation_rules, i) ==
    IF i > Len(aggregation_rules) THEN Called(w, lg, FALSE)
    ELSE LET r == aggregate_rule(Frame(w), lg, aggregation_rules[i][1], aggregation_rules[i][2])
         IN  IF r.raised THEN Called(Assign(w, r.df), r.log, TRUE)
             ELSE aggregate_from(Assign(w, r.df), r.log, aggregation_rules, i + 1)

handle_granularity_issues(d, lg, aggregation_rules) ==
    aggregate_from(copy(Passed(d)), lg, aggregation_rules, 1)

\* df.eval(condition) for the three predicate forms the rules use:
\*   "~COL.isin([...])", "COL < bound", "COL > bound".
\* It raises when the expression does not parse, when the column is absent,
\* and when an ordering comparison meets a string.
EvalRaises(d, condition) ==
    \/ condition.kind = "malformed"
    \/ ~HasColumn(d, condition.column)
    \/ /\ condition.kind \in {"lt", "gt"}
       /\ \E i \in Rows(d) : d.rows[i][condition.column].k = "str"

eval(d, condition) ==
    LET Holds(c) ==
            IF condition.kind = "notin" THEN ~isin(c, condition.values)
            ELSE IF condition.kind = "lt"
            THEN c.k \in {"num", "float", "bool"} /\ c.n < condition.bound
            ELSE c.k \in {"num", "float", "bool"} /\ c.n > condition.bound
    IN  {i \in Rows(d) : Holds(d.rows[i][condition.column])}

\* df.loc[mask, column] = value (mask not empty): a string set in a numeric
\* column makes it an object column; an absent column is added as an object
\* column, NaN elsewhere.
set_loc(d, mask, column, value) ==
    IF HasColumn(d, column)
    THEN LET dt == Upcast(dtype(d, column), value)
         IN  WithColumn(d, column, dt, [i \in Rows(d) |->
                 IF i \in mask THEN Held(value, dt) ELSE d.rows[i][column]])
    ELSE [cols |-> Append(d.cols, column),
          dtypes |-> Append(d.dtypes, "object"),
          rows |-> [i \in Rows(d) |->
            [c \in Range(d.cols) \cup {column} |->
                IF c # column THEN d.rows[i][c]
                ELSE IF i \in mask THEN value ELSE NaN]]]

RECURSIVE Repeat(_, _)
Repeat(str, k) == IF k <= 0 THEN "" ELSE str \o Repeat(str, k - 1)

\* cell * factor (factor an int): a string is repeated.
times(c, factor) ==
    IF c.k = "nan" THEN c
    ELSE IF c.k = "str" THEN Str(Repeat(c.s, factor))
    ELSE IF c.k = "float" THEN Float(c.n * factor)
    ELSE Num(c.n * factor)

\* df.loc[mask, column] *= factor: the column keeps its dtype.
mul_loc(d, mask, column, factor) ==
    WithColumn(d, column, dtype(d, column), [i \in Rows(d) |->
        IF i \in mask THEN times(d.rows[i][column], factor) ELSE d.rows[i][column]])

\* One turn of the loop of apply_business_rules: the try block and its except.
apply_rule(d, lg, rule) ==
    LET rule_name == rule.name
        condition == rule.condition
        action == rule.action
        failed == Returned(d, log_improvement(lg, "business_rule_error", <<rule_name>>))
    IN  IF EvalRaises(d, condition) THEN failed
        ELSE LET mask == eval(d, condition)
                 affected_rows == Cardinality(mask)
                 logged == log_improvement(lg, "business_rule",
                                           <<rule_name, affected_rows>>)
             IN  IF affected_rows = 0 THEN Returned(d, lg)
                 ELSE IF action.type = "set_value"
                      THEN Returned(set_loc(d, mask, action.column, action.value), logged)
                 ELSE IF action.type = "multiply"
                      THEN IF ~HasColumn(d, action.column) THEN failed
                           ELSE Returned(mul_loc(d, mask, action.column, action.factor),
                                         logged)
                 ELSE IF action.type = "flag"
                      THEN Returned(set_loc(d, mask, action.column, action.value), logged)
                 ELSE Returned(d, logged)

\* Mutant of apply_from: the first rule whose condition fails ends the loop.
RECURSIVE apply_from_until_error(_, _, _, _)
apply_from_until_error(w, lg, business_rules, i) ==
    IF i > Len(business_rules) THEN Called(w, lg, FALSE)
    ELSE LET r == apply_rule(Frame(w), lg, business_rules[i])
         IN  IF EvalRaises(Frame(w), business_rules[i].condition)
             THEN Called(Assign(w, r.df), r.log, FALSE)
             ELSE apply_from_until_error(Assign(w, r.df), r.log, business_rules, i + 1)

RECURSIVE apply_from(_, _, _, _)
apply_from(w, lg, business_rules, i) ==
    IF i > Len(business_rules) THEN Called(w, lg, FALSE)
    ELSE LET r == apply_rule(Frame(w), lg, business_rules[i])
         IN  apply_from(Assign(w, r.df), r.log, business_rules, i + 1)

\* Mutant of apply_business_rules: every rule's predicate is evaluated on the
\* dataset as passed in, not as the earlier rules left it.
RECURSIVE snapshot_from(_, _, _, _, _)
snapshot_from(d0, w, lg, business_rules, i) ==
    IF i > Len(business_rules) THEN Called(w, lg, FALSE)
    ELSE LET rule == business_rules[i]
             d == Frame(w)
             ok == /\ ~EvalRaises(d0, rule.condition)
                   /\ rule.action.type = "multiply" => HasColumn(d, rule.action.column)
             mask == eval(d0, rule.condition)
             next == IF ~ok \/ mask = {} THEN d
                     ELSE IF rule.action.type = "multiply"
                          THEN mul_loc(d, mask, rule.action.column, rule.action.factor)
                     ELSE set_loc(d, mask, rule.action.column, rule.action.value)
         IN  snapshot_from(d0, Assign(w, next), lg, business_rules, i + 1)

apply_business_rules_snapshot(d, lg, business_rules) ==
    snapshot_from(d, copy(Passed(d)), lg, business_rules, 1)

apply_business_rules(d, lg, business_rules) ==
    apply_from(copy(Passed(d)), lg, business_rules, 1)

\* Mutant of get_improvement_summary: every entry counted under one category.
get_improvement_summary_one_category(lg) ==
    [total_improvements |-> Len(lg),
     by_category |-> [category \in {lg[i].action : i \in 1..1 \cap DOMAIN lg} |-> Len(lg)],
     timeline |-> lg]

get_improvement_summary(lg) ==
    [total_improvements |-> Len(lg),
     by_category |->
         [category \in {lg[i].action : i \in DOMAIN lg} |->
             Cardinality({i \in DOMAIN lg : lg[i].action = category})],
     timeline |-> lg]

----------------------------------------------------------------------------
(* Configurations the callers pass *)

Rule(name, condition, action) ==
    [name |-> name, condition |-> condition, action |-> action]

NotIn(column, values) ==
    [kind |-> "notin", column |-> column, values |-> values, bound |-> 0]
LessThan(column, bound) ==
    [kind |-> "lt", column |-> column, values |-> {}, bound |-> bound]
GreaterThan(column, bound) ==
    [kind |-> "gt", column |-> column, values |-> {}, bound |-> bound]

SetValue(column, value) ==
    [type |-> "set_value", column |-> column, value |-> value, factor |-> 1]
Multiply(column, factor) ==
    [type |-> "multiply", column |-> column, value |-> NaN, factor |-> factor]
Flag(flag_column, flag_value) ==
    [type |-> "flag", column |-> flag_column, value |-> flag_value, factor |-> 1]

\* Mutant of validate_csp_codes: the value set is a label, not a code.
validate_csp_codes_label ==
    Rule("validate_csp_codes", NotIn("CSP", CSPValidCodes), SetValue("CSP", Str("INCONNU")))

\* create_improvement_config_population()['business_rules'][0]
validate_csp_codes ==
    Rule("validate_csp_codes", NotIn("CSP", CSPValidCodes), SetValue("CSP", Str("0")))

\* create_improvement_config_consommation()['business_rules']
validate_consumption_positive ==
    Rule("validate_consumption_positive", LessThan("NB_KW_Jour", 0),
         SetValue("NB_KW_Jour", Num(0)))

flag_high_consumption ==
    Rule("flag_high_consumption", GreaterThan("NB_KW_Jour", 50),
         Flag("High_Consumption_Flag", Bool(TRUE)))

\* A caller's rule of the multiply kind: consumption below zero is a sign
\* error of large size, -12 becomes 60.
rescale_negative ==
    Rule("rescale_negative", LessThan("NB_KW_Jour", 0), Multiply("NB_KW_Jour", -5))

\* Rules that fail: a condition that does not parse, a condition on a column
\* the dataset has not, a multiply on a column the dataset has not.
\* (the condition "malformed" is no expression, such as "NB_KW_Jour <")
bad_syntax ==
    Rule("bad_syntax",
         [kind |-> "malformed", column |-> "", values |-> {}, bound |-> 0],
         SetValue("CSP", Str("0")))

flag_senior ==
    Rule("flag_senior", GreaterThan("Age", 60), Flag("Senior_Flag", Bool(TRUE)))

scale_price == Rule("scale_price", LessThan("NB_KW_Jour", 0), Multiply("Prix", 2))

\* A caller's aggregation rule: mean consumption by CSP.
aggregation_rules ==
    <<<<"mean_by_csp",
        [group_by |-> <<"CSP">>, agg_column |-> "NB_KW_Jour", method |-> "mean"]>>>>

\* create_improvement_config_population()['codification_rules']
population_codification ==
    <<<<"CSP", ("cadre" :> "1") @@ ("employe" :> "2") @@ ("employé" :> "2")
               @@ ("ouvrier" :> "3") @@ ("retraite" :> "4") @@ ("retraité" :> "4")>>>>

----------------------------------------------------------------------------
(* The simplified ETL: process_source *)

\* QUALITY_THRESHOLD = 99.0, in hundredths of a percent
QUALITY_THRESHOLD == 99 * 100

\* The dicts are sequences of (key, value) items in their order.
create_improvement_config_population ==
    [completeness_strategies |->
         <<<<"Nom", "custom_INCONNU">>, <<"Prenom", "custom_INCONNU">>,
           <<"Adresse", "custom_ADRESSE_INCONNUE">>, <<"CSP", "custom_0">>>>,
     format_rules |->
         <<<<"Nom", FormatRule("title_case")>>, <<"Prenom", FormatRule("title_case")>>,
           <<"Adresse", FormatRule("title_case")>>, <<"CSP", FormatRule("clean_spaces")>>>>,
     codification_rules |-> population_codification,
     business_rules |-> <<validate_csp_codes>>]

\* The consumption configuration has no codification_rules.
create_improvement_config_consommation ==
    [completeness_strategies |->
         <<<<"N", "custom_0">>, <<"Nom_Rue", "custom_RUE_INCONNUE">>,
           <<"NB_KW_Jour", "mean">>>>,
     format_rules |->
         <<<<"Nom_Rue", FormatRule("title_case")>>, <<"N", FormatRule("numeric")>>,
           <<"NB_KW_Jour", FormatRule("numeric")>>>>,
     codification_rules |-> <<>>,
     business_rules |-> <<validate_consumption_positive, flag_high_consumption>>]

\* 'population' in source_name, on the source names of the model
contains_population(source_name) == source_name \in {"population"}

\* A step of improve_data_quality after one that raised is not made.
Then(r, next_step(_, _)) == IF r.raised THEN r ELSE next_step(r.df, r.log)

\* improve_data_quality(df, source_name): a fresh Improver and the five steps
\* in their fixed order; the result carries the Improver's log.
improve_data_quality(d, source_name) ==
    LET config == IF contains_population(source_name)
                  THEN create_improvement_config_population
                  ELSE create_improvement_config_consommation
        improvement_log == <<>>
        df_improved == Frame(copy(Passed(d)))
        step1 == remove_duplicates(df_improved, improvement_log, None)
        step2 == Then(step1, LAMBDA x, lg :
                     improve_completeness(x, lg, config.completeness_strategies))
        step3 == Then(step2, LAMBDA x, lg : standardize_format(x, lg, config.format_rules))
        step4 == IF config.codification_rules # <<>>
                 THEN Then(step3, LAMBDA x, lg :
                          normalize_codification(x, lg, config.codification_rules))
                 ELSE step3
        step5 == Then(step4, LAMBDA x, lg :
                     apply_business_rules(x, lg, config.business_rules))
    IN  [df |-> step5.df, log |-> step5.log, raised |-> step5.raised]

\* score_before < QUALITY_THRESHOLD (a NaN score is below nothing)
needs_improvement(score_before) ==
    ~score_before.nan /\ score_before.n < QUALITY_THRESHOLD * score_before.d

\* score_after >= QUALITY_THRESHOLD
meets_threshold(score_after) ==
    ~score_after.nan /\ score_after.n >= QUALITY_THRESHOLD * score_after.d

----------------------------------------------------------------------------
(* The datasets and configurations of the model *)

Columns == <<"CSP", "NB_KW_Jour">>

\* A CSV file: the header Columns and up to MaxRows lines.  The fields of a
\* line are text; "" is an empty field.
Files ==
    LET CSPFields == {"1", "cadre", ""}
        NBFields == {"12", "-12", ""}
        Lines == {[CSP |-> a, NB_KW_Jour |-> b] : a \in CSPFields, b \in NBFields}
    IN  UNION {[1..n -> Lines] : n \in 0..MaxRows}

\* pd.read_csv(file_path).  The dtype inferred for a column: object without
\* lines or with a text field, int64 when every field is an integer, float64
\* when some fields are integers and the others empty (or all are empty).
\* An empty field is a missing value, the other fields are parsed as the
\* dtype of their column says.
read_csv(lines) ==
    LET IsIntegerText(text) == \E n \in Numbers : text = ToString(n)
        ParseInteger(text) == CHOOSE n \in Numbers : text = ToString(n)
        inferred_dtype(col) ==
            IF Len(lines) = 0 THEN "object"
            ELSE IF \A i \in DOMAIN lines : IsIntegerText(lines[i][col]) THEN "int64"
            ELSE IF \A i \in DOMAIN lines :
                        lines[i][col] = "" \/ IsIntegerText(lines[i][col])
            THEN "float64"
            ELSE "object"
        parsed(text, dt) ==
            IF text = "" THEN NaN
            ELSE IF dt = "int64" THEN Num(ParseInteger(text))
            ELSE IF dt = "float64" THEN Float(ParseInteger(text))
            ELSE Str(text)
    IN  [cols |-> Columns,
         dtypes |-> [k \in DOMAIN Columns |-> inferred_dtype(Columns[k])],
         rows |-> [i \in DOMAIN lines |->
                     [col \in Range(Columns) |->
                         parsed(lines[i][col], inferred_dtype(col))]]]

Datasets == {read_csv(lines) : lines \in Files}

SourceNames == {"population", "consommation"}

Subsets ==
    {None, [none |-> FALSE, cols |-> {"CSP"}], [none |-> FALSE, cols |-> {"NB_KW_Jour"}]}

StrategySets ==
    {<<<<"CSP", "custom_0">>>>, <<<<"CSP", "mode">>>>, <<<<"CSP", "forward_fill">>>>,
     <<<<"CSP", "INCONNU">>>>, <<<<"NB_KW_Jour", "mean">>>>,
     <<<<"CSP", "mean">>, <<"NB_KW_Jour", "mode">>>>,
     <<<<"Nom", "custom_INCONNU">>>>,
     create_improvement_config_population.completeness_strategies}

CodificationRuleSets ==
    {population_codification,
     <<<<"CSP", [cadre |-> "1"]>>>>,
     <<<<"Nom", [cadre |-> "1"]>>>>}

\* valid_codes arguments: the CSP codes, codes that are the string forms of
\* the numbers of NB_KW_Jour, and none.
FormatRuleSets ==
    {<<<<"CSP", FormatRule("title_case")>>>>,
     <<<<"CSP", FormatRule("lower_case")>>, <<"Nom", FormatRule("title_case")>>>>,
     <<<<"CSP", RegexRule("^cadre$", "1")>>>>,
     <<<<"Nom", FormatRule("title_case")>>>>,
     <<<<"CSP", FormatRule("numeric")>>>>}

BusinessRuleLists ==
    {<<validate_csp_codes>>,
     <<validate_consumption_positive, flag_high_consumption>>,
     <<rescale_negative, flag_high_consumption>>,
     <<validate_consumption_positive, rescale_negative>>,
     <<bad_syntax, validate_csp_codes>>,
     <<rescale_negative, flag_senior, flag_high_consumption>>,
     <<scale_price, validate_consumption_positive>>}

----------------------------------------------------------------------------
(* The caller: one Improver instance, one current dataset *)

(***************************************************************************)
(* df      the dataset the caller holds                                    *)
(* inp     the dataset passed to the last Improver call, as it was when    *)
(*         passed                                                          *)
(* kept    that same frame of the caller as it is after the call           *)
(* op      the last Improver call: its name, argument, and whether it      *)
(*         raised                                                          *)
(* log     improvement_log of the Improver instance                        *)
(* summary the last dict get_improvement_summary returned; its timeline is *)
(*         the list improvement_log itself                                 *)
(* report  the result of the last Evaluator call made on df since the last *)
(*         Improver call, if any                                           *)
(* previous the result of the same Evaluator call made on df just before   *)
(*         report, if the caller asked twice                               *)
(* now     the clock                                                       *)
(* before  the result of the Evaluator call made on inp before the last    *)
(*         Improver call, if any                                           *)
(* steps   the number of Improver calls made                               *)
(* budget  the number of Improver calls the caller makes                   *)
(***************************************************************************)

NoReport == [name |-> "none"]

NoSummary == [name |-> "none"]

Call(name, arg, raised) == [name |-> name, arg |-> arg, raised |-> raised]

Evaluated(name, arg, result) == [name |-> name, arg |-> arg, result |-> result]

\* No run of process_source.
NoRun == [pc |-> "none"]

\* A caller with a dataset as loaded and a fresh Improver, about to make
\* calls calls.
Start(datasets, calls) ==
    /\ df \in datasets
    /\ inp = df
    /\ kept = df
    /\ op = Call("init", None, FALSE)
    /\ log = <<>>
    /\ summary = NoSummary
    /\ report = NoReport
    /\ previous = NoReport
    /\ before = NoReport
    /\ now = 0
    /\ steps = 0
    /\ budget = calls

Init == Start(Datasets, MaxSteps) /\ etl = NoRun

\* An Evaluator call on the caller's dataset.  The function is passed the
\* caller's frame and computes on objects it makes itself (df[columns],
\* series = df[column].dropna(), df.duplicated(...)); it holds no assignment
\* to a frame, so the caller's frame when it returns is the frame passed.
Evaluate(r) ==
    /\ report = NoReport
    /\ report' = r
    /\ df' = Passed(df).frames["arg"]
    /\ UNCHANGED <<inp, kept, op, log, summary, previous, before, now, steps, budget, etl>>

\* report = generate_quality_report(df, source_name)
GenerateQualityReport(source_name) ==
    Evaluate(Evaluated("generate_quality_report", source_name,
                       generate_quality_report(df, source_name)))

\* The caller asks for the report of the same dataset, under the same name,
\* a second time.
GenerateQualityReportAgain ==
    /\ report # NoReport
    /\ report.name = "generate_quality_report"
    /\ previous = NoReport
    /\ previous' = report
    /\ report' = Evaluated("generate_quality_report", report.arg,
                           generate_quality_report(df, report.arg))
    /\ df' = Passed(df).frames["arg"]
    /\ UNCHANGED <<inp, kept, op, log, summary, before, now, steps, budget, etl>>

\* Time passes between two calls.
Tick ==
    /\ now < MaxTime
    /\ now' = now + 1
    /\ UNCHANGED <<df, inp, kept, op, log, summary, report, previous, before, steps,
                   budget, etl>>

\* report = check_duplicates(df, subset)
CheckDuplicates(subset) ==
    Evaluate(Evaluated("check_duplicates", subset, check_duplicates(df, subset)))

\* A caller that picks the columns to check itself and scores the sub-reports:
\* calculate_data_quality_score(check_completeness(df, ccols),
\*     check_duplicates(df), {c: check_format_consistency(df, c)},
\*     {c: check_codification_consistency(df, c, codes)})
CalculateDataQualityScore(ccols, fcols, kcols) ==
    LET completeness == check_completeness(df, ccols)
        duplicates == check_duplicates(df, None)
        format_reports == [c \in fcols |-> check_format_consistency(df, c)]
        codification_reports ==
            [c \in kcols |-> check_codification_consistency(df, c, CSPValidCodes)]
    IN  Evaluate(Evaluated("calculate_data_quality_score", <<ccols, fcols, kcols>>,
            [completeness |-> completeness,
             duplicates |-> duplicates,
             format_consistency |-> format_reports,
             codification_consistency |-> codification_reports,
             quality_score |-> calculate_data_quality_score(
                 completeness, duplicates, format_reports, codification_reports)]))

\* df = improver.<method>(df, arg): the caller keeps the frame returned, or
\* its own frame when the call raised.
ImproveCall(name, arg, r) ==
    /\ steps < budget
    /\ df' = IF r.raised THEN df ELSE r.df
    /\ log' = r.log
    /\ summary' = IF summary = NoSummary THEN summary
                  ELSE [summary EXCEPT !.timeline = r.log]
    /\ inp' = df
    /\ kept' = r.input
    /\ op' = Call(name, arg, r.raised)
    /\ report' = NoReport
    /\ previous' = NoReport
    /\ before' = report
    /\ steps' = steps + 1
    /\ UNCHANGED <<now, budget>>

\* An Improver call outside a run of a script.
Improve(name, arg, r) == ImproveCall(name, arg, r) /\ UNCHANGED etl

RemoveDuplicates(subset) ==
    Improve("remove_duplicates", subset, remove_duplicates(df, log, subset))

ImproveCompleteness(strategies) ==
    Improve("improve_completeness", strategies,
            improve_completeness(df, log, strategies))

NormalizeCodification(rules) ==
    Improve("normalize_codification", rules, normalize_codification(df, log, rules))

ApplyBusinessRules(rules) ==
    Improve("apply_business_rules", rules, apply_business_rules(df, log, rules))

StandardizeFormat(rules) ==
    Improve("standardize_format", rules, standardize_format(df, log, rules))

HandleGranularityIssues(rules) ==
    Improve("handle_granularity_issues", rules,
            handle_granularity_issues(df, log, rules))

\* summary = improver.get_improvement_summary()
GetImprovementSummary ==
    /\ op' = Call("get_improvement_summary", None, FALSE)
    /\ summary' = get_improvement_summary(log)
    /\ inp' = df
    /\ kept' = df
    /\ UNCHANGED <<df, log, report, previous, before, now, steps, budget, etl>>

\* report = check_codification_consistency(df, column, valid_codes)
CheckCodificationConsistency(column, valid_codes) ==
    Evaluate(Evaluated("check_codification_consistency", <<column, valid_codes>>,
                       check_codification_consistency(df, column, valid_codes)))

\* report = check_completeness(df, columns), the columns listed by the caller
CheckCompleteness(columns) ==
    Evaluate(Evaluated("check_completeness", columns, check_completeness(df, columns)))

\* report = check_format_consistency(df, column)
CheckFormatConsistency(column) ==
    Evaluate(Evaluated("check_format_consistency", column,
                       check_format_consistency(df, column)))

\* process_source(source_name) is about to run on the file sources/<name>.csv,
\* whose content is df if the file exists.
NewRun(exists) ==
    [pc |-> "start", exists |-> exists, source_name |-> "", df_original |-> df,
     report_before |-> NoReport, df_improved |-> df, improved |-> FALSE,
     report_after |-> NoReport, result |-> NoReport, saved |-> NoReport]

\* The file of the source is not there: process_source returns None.
SourceMissing(source_name) ==
    /\ etl.pc = "start"
    /\ ~etl.exists
    /\ etl' = [etl EXCEPT !.pc = "done", !.source_name = source_name]
    /\ UNCHANGED <<df, inp, kept, op, log, summary, report, previous, before, now, steps,
                   budget>>

\* Steps 1 and 2 of process_source: read the file, evaluate it and write
\* the report; a TypeError of json.dump leaves process_source.
EvaluateBefore(source_name) ==
    /\ etl.pc = "start"
    /\ etl.exists
    /\ LET rep == generate_quality_report_to_path(df, source_name \o "_before")
       IN  etl' = [etl EXCEPT !.pc = IF rep = TypeError THEN "raised" ELSE "evaluated",
                              !.source_name = source_name,
                              !.df_original = df,
                              !.report_before = IF rep = TypeError THEN NoReport ELSE rep]
    /\ UNCHANGED <<df, inp, kept, op, log, summary, report, previous, before, now, steps,
                   budget>>

\* Step 4, below the threshold: df_improved = self.improve_data_quality(...)
ImproveDataQuality ==
    /\ etl.pc = "evaluated"
    /\ needs_improvement(etl.report_before.quality_score.overall_quality_score)
    /\ LET r == improve_data_quality(etl.df_original, etl.source_name)
       IN  /\ etl' = [etl EXCEPT !.pc = IF r.raised THEN "raised" ELSE "improved",
                                 !.improved = TRUE,
                                 !.df_improved = r.df]
           /\ log' = r.log
           /\ summary' = IF r.raised THEN summary ELSE get_improvement_summary(r.log)
    /\ UNCHANGED <<df, inp, kept, op, report, previous, before, now, steps, budget>>

\* The evaluation of the improved dataset.
EvaluateAfter ==
    /\ etl.pc = "improved"
    /\ LET rep == generate_quality_report_to_path(etl.df_improved,
                                                  etl.source_name \o "_after")
       IN  etl' = [etl EXCEPT !.pc = IF rep = TypeError THEN "raised" ELSE "reevaluated",
                              !.report_after = IF rep = TypeError THEN NoReport ELSE rep]
    /\ UNCHANGED <<df, inp, kept, op, log, summary, report, previous, before, now, steps,
                   budget>>

\* The improved dataset is saved and the result returned.
SaveImproved ==
    /\ etl.pc = "reevaluated"
    /\ LET score_before == etl.report_before.quality_score.overall_quality_score
           score_after == etl.report_after.quality_score.overall_quality_score
       IN  etl' = [etl EXCEPT
               !.pc = "done",
               !.saved = [file |-> etl.source_name \o "_improved.csv",
                          data |-> etl.df_improved],
               !.result = [source_name |-> etl.source_name,
                           original_rows |-> Len(etl.df_original.rows),
                           final_rows |-> Len(etl.df_improved.rows),
                           score_before |-> score_before,
                           score_after |-> score_after,
                           improvement |->
                               IF score_after.nan \/ score_before.nan THEN NaNScore
                               ELSE Fin(score_after.n - score_before.n),
                           meets_threshold |-> meets_threshold(score_after),
                           file_saved |-> etl.source_name \o "_improved.csv"]]
    /\ UNCHANGED <<df, inp, kept, op, log, summary, report, previous, before, now, steps,
                   budget>>

\* No improvement needed: the dataset is saved as read.
SaveValidated ==
    /\ etl.pc = "evaluated"
    /\ ~needs_improvement(etl.report_before.quality_score.overall_quality_score)
    /\ LET score_before == etl.report_before.quality_score.overall_quality_score
       IN  etl' = [etl EXCEPT
               !.pc = "done",
               !.saved = [file |-> etl.source_name \o "_validated.csv",
                          data |-> etl.df_original],
               !.result = [source_name |-> etl.source_name,
                           original_rows |-> Len(etl.df_original.rows),
                           final_rows |-> Len(etl.df_original.rows),
                           score_before |-> score_before,
                           score_after |-> score_before,
                           improvement |-> Fin(0),
                           meets_threshold |-> TRUE,
                           file_saved |-> etl.source_name \o "_validated.csv"]]
    /\ UNCHANGED <<df, inp, kept, op, log, summary, report, previous, before, now, steps,
                   budget>>

\* The Improver: any of its five operations on the dataset, on any
\* configuration.
Next ==
    \/ RemoveDuplicates(None)
    \/ \E strategies \in StrategySets : ImproveCompleteness(strategies)
    \/ \E rules \in FormatRuleSets : StandardizeFormat(rules)
    \/ \E rules \in CodificationRuleSets : NormalizeCodification(rules)
    \/ \E rules \in BusinessRuleLists : ApplyBusinessRules(rules)

Spec == Init /\ [][Next]_vars

\* The Evaluator alone, on the datasets as loaded.
NextEval ==
    \/ \E source_name \in SourceNames : GenerateQualityReport(source_name)
    \/ GenerateQualityReportAgain
    \/ Tick
    \/ \E subset \in Subsets : CheckDuplicates(subset)
    \/ \E column \in Range(Columns) \cup {"ID_CSP"}, valid_codes \in {CSPValidCodes, {"12", "-12"}, {}} :
          CheckCodificationConsistency(column, valid_codes)
    \/ \E columns \in (SUBSET (Range(Columns) \cup {"ID_CSP"})) \ {{}} :
          CheckCompleteness(columns)
    \/ \E column \in Range(Columns) \cup {"ID_CSP"} : CheckFormatConsistency(column)
    \/ \E ccols \in SUBSET Range(Columns), fcols \in SUBSET Range(Columns),
          kcols \in SUBSET {"CSP"} : CalculateDataQualityScore(ccols, fcols, kcols)

SpecEval == Init /\ [][NextEval]_vars

\* Deduplication, and the duplicates check before and after it.
NextDedup ==
    \/ \E subset \in Subsets : RemoveDuplicates(subset)
    \/ \E subset \in Subsets : CheckDuplicates(subset)

SpecDedup ==
    /\ Start(Datasets, MaxCalls) /\ etl = NoRun
    /\ [][NextDedup]_vars

\* demonstrate_quality_improvement(): the file sources/population_paris.csv,
\* whose content is df if the file exists, is read and evaluated, the five
\* operations of one Improver are called once each in their fixed order with
\* the population configuration, the result is evaluated and saved.  The
\* reports are made without a path and written at the end.
DemoImproverCalls == 5

InitPipeline ==
    /\ Start(Datasets, DemoImproverCalls)
    /\ etl \in {NewRun(exists) : exists \in BOOLEAN}
    /\ etl.exists \/ df.rows = <<>>

\* The file is not there: the demonstration returns.
DemoSourceMissing ==
    /\ etl.pc = "start"
    /\ ~etl.exists
    /\ etl' = [etl EXCEPT !.pc = "done", !.source_name = "population_paris"]
    /\ UNCHANGED <<df, inp, kept, op, log, summary, report, previous, before, now, steps,
                   budget>>

\* initial_report = generate_quality_report(df_original, ...)
DemoInitialReport ==
    /\ etl.pc = "start"
    /\ etl.exists
    /\ LET rep == generate_quality_report(df, "population_paris_original")
       IN  /\ etl' = [etl EXCEPT !.pc = "evaluated",
                                 !.source_name = "population_paris",
                                 !.df_original = df,
                                 !.report_before = rep]
           /\ report' = Evaluated("generate_quality_report",
                                  "population_paris_original", rep)
    /\ df' = Passed(df).frames["arg"]
    /\ UNCHANGED <<inp, kept, op, log, summary, previous, before, now, steps, budget>>

\* df_improved = improver.<method>(df_improved, config[...]), the call made
\* at position from of the demonstration.
DemoCall(from, to, name, arg, r) ==
    /\ etl.pc = from
    /\ ImproveCall(name, arg, r)
    /\ etl' = [etl EXCEPT !.pc = IF r.raised THEN "raised" ELSE to,
                          !.improved = TRUE,
                          !.df_improved = r.df]

DemoRemoveDuplicates ==
    DemoCall("evaluated", "deduplicated", "remove_duplicates", None,
             remove_duplicates(df, log, None))

DemoImproveCompleteness ==
    LET strategies == create_improvement_config_population.completeness_strategies
    IN  DemoCall("deduplicated", "completed", "improve_completeness", strategies,
                 improve_completeness(df, log, strategies))

DemoStandardizeFormat ==
    LET rules == create_improvement_config_population.format_rules
    IN  DemoCall("completed", "standardized", "standardize_format", rules,
                 standardize_format(df, log, rules))

DemoNormalizeCodification ==
    LET rules == create_improvement_config_population.codification_rules
    IN  DemoCall("standardized", "normalized", "normalize_codification", rules,
                 normalize_codification(df, log, rules))

DemoApplyBusinessRules ==
    LET rules == create_improvement_config_population.business_rules
    IN  DemoCall("normalized", "improved", "apply_business_rules", rules,
                 apply_business_rules(df, log, rules))

\* final_report = generate_quality_report(df_improved, ...)
DemoFinalReport ==
    /\ etl.pc = "improved"
    /\ LET rep == generate_quality_report(df, "population_paris_improved")
       IN  /\ etl' = [etl EXCEPT !.pc = "reevaluated", !.report_after = rep]
           /\ report' = Evaluated("generate_quality_report",
                                  "population_paris_improved", rep)
    /\ df' = Passed(df).frames["arg"]
    /\ UNCHANGED <<inp, kept, op, log, summary, previous, before, now, steps, budget>>

\* summary = improver.get_improvement_summary()
DemoSummary ==
    /\ etl.pc = "reevaluated"
    /\ etl' = [etl EXCEPT !.pc = "summarized"]
    /\ op' = Call("get_improvement_summary", None, FALSE)
    /\ summary' = get_improvement_summary(log)
    /\ inp' = df
    /\ kept' = df
    /\ UNCHANGED <<df, log, report, previous, before, now, steps, budget>>

\* The improved dataset is saved, then the two reports are written; the
\* json.dump of the initial report may raise and end the demonstration.
DemoSave ==
    /\ etl.pc = "summarized"
    /\ etl' = [etl EXCEPT
           !.pc = IF json_dump_raises(etl.df_original, etl.report_before)
                     \/ json_dump_raises(etl.df_improved, etl.report_after)
                  THEN "raised" ELSE "done",
           !.saved = [file |-> "population_paris_improved_demo.csv",
                      data |-> etl.df_improved]]
    /\ UNCHANGED <<df, inp, kept, op, log, summary, report, previous, before, now, steps,
                   budget>>

NextPipeline ==
    \/ DemoSourceMissing
    \/ DemoInitialReport
    \/ DemoRemoveDuplicates
    \/ DemoImproveCompleteness
    \/ DemoStandardizeFormat
    \/ DemoNormalizeCodification
    \/ DemoApplyBusinessRules
    \/ DemoFinalReport
    \/ DemoSummary
    \/ DemoSave

SpecPipeline == InitPipeline /\ [][NextPipeline]_vars

\* One Improver instance used for several calls: a caller threads its
\* dataset through operations of its choice and asks for summaries.
NextSession ==
    \/ RemoveDuplicates(None)
    \/ ImproveCompleteness(create_improvement_config_consommation.completeness_strategies)
    \/ StandardizeFormat(create_improvement_config_population.format_rules)
    \/ NormalizeCodification(population_codification)
    \/ ApplyBusinessRules(<<rescale_negative, flag_high_consumption>>)
    \/ HandleGranularityIssues(aggregation_rules)
    \/ GetImprovementSummary

SpecSession ==
    /\ Start({d \in Datasets : Len(d.rows) <= MaxSessionRows}, MaxCalls) /\ etl = NoRun
    /\ [][NextSession]_vars

\* One run of process_source on a source file; a file that is not there has
\* no content.
InitETL ==
    /\ Start(Datasets, 0)
    /\ etl \in {NewRun(exists) : exists \in BOOLEAN}
    /\ etl.exists \/ df.rows = <<>>

NextETL ==
    \/ \E source_name \in SourceNames : SourceMissing(source_name)
    \/ \E source_name \in SourceNames : EvaluateBefore(source_name)
    \/ ImproveDataQuality
    \/ EvaluateAfter
    \/ SaveImproved
    \/ SaveValidated

SpecETL == InitETL /\ [][NextETL]_vars

----------------------------------------------------------------------------
(* Properties of the Evaluator *)

\* A score is a number between 0 and 100 (NaN is not).
InRange(x) == ~x.nan /\ 0 <= x.n /\ x.n <= 100 * 100 * x.d

HasQualityScore ==
    report.name \in {"generate_quality_report", "calculate_data_quality_score"}

ScoreFields == {"completeness_score", "uniqueness_score", "format_score",
                "codification_score", "overall_quality_score"}

\* C1: every *_score field of the report of generate_quality_report is a
\* number in [0,100], whatever the dataset (zero rows and all-missing
\* columns included).
C1_ScoresInRange ==
    report.name = "generate_quality_report" =>
        LET r == report.result
        IN  /\ \A c \in DOMAIN r.completeness :
                   InRange(r.completeness[c].completeness_score)
            /\ InRange(r.duplicates.uniqueness_score)
            /\ \A c \in DOMAIN r.format_consistency :
                   "format_consistency_score" \in DOMAIN r.format_consistency[c]
                       => InRange(r.format_consistency[c].format_consistency_score)
            /\ \A c \in DOMAIN r.codification_consistency :
                   "codification_score" \in DOMAIN r.codification_consistency[c]
                       => InRange(r.codification_consistency[c].codification_score)
            /\ \A f \in ScoreFields : InRange(r.quality_score[f])

\* The sub-scores a report's overall score is computed from, in hundredths:
\* their sum over the reported columns, and the number of columns (a report
\* with an error entry counts as score 0; no column gives sum 0 over 1).
RECURSIVE Total(_, _, _)
Total(reports, field, S) ==
    IF S = {} THEN 0
    ELSE LET c == CHOOSE x \in S : TRUE
         IN  (IF field \in DOMAIN reports[c] THEN reports[c][field].n ELSE 0)
             + Total(reports, field, S \ {c})

SumOf(reports, field) == Total(reports, field, DOMAIN reports)
CountOf(reports) == IF DOMAIN reports = {} THEN 1 ELSE Cardinality(DOMAIN reports)

SomeNaN(r) ==
    \/ \E c \in DOMAIN r.completeness : r.completeness[c].completeness_score.nan
    \/ r.duplicates.uniqueness_score.nan

\* 0.30 x mean completeness + 0.25 x uniqueness + 0.25 x mean format
\* + 0.20 x mean codification, as the fraction WeightedNum / WeightedDen of
\* hundredths.
WeightedNum(r) ==
    LET nc == CountOf(r.completeness)
        nf == CountOf(r.format_consistency)
        nk == CountOf(r.codification_consistency)
    IN  30 * SumOf(r.completeness, "completeness_score") * nf * nk
        + 25 * r.duplicates.uniqueness_score.n * nc * nf * nk
        + 25 * SumOf(r.format_consistency, "format_consistency_score") * nc * nk
        + 20 * SumOf(r.codification_consistency, "codification_score") * nc * nf

WeightedDen(r) ==
    100 * CountOf(r.completeness) * CountOf(r.format_consistency)
        * CountOf(r.codification_consistency)

Abs(x) == IF x < 0 THEN -x ELSE x

\* C2 as claimed: overall_quality_score equals the weighted sum
\* 0.30/0.25/0.25/0.20 of the four sub-scores.
C2_OverallIsWeightedSum ==
    HasQualityScore =>
        LET r == report.result
            overall == r.quality_score.overall_quality_score
        IN  IF SomeNaN(r) THEN overall.nan
            ELSE /\ ~overall.nan
                 /\ overall.n * WeightedDen(r) = WeightedNum(r)

\* C2 as amended: overall_quality_score is that weighted sum rounded to two
\* decimals (within half a hundredth of it).
C2_OverallIsRoundedWeightedSum ==
    HasQualityScore =>
        LET r == report.result
            overall == r.quality_score.overall_quality_score
        IN  IF SomeNaN(r) THEN overall.nan
            ELSE /\ ~overall.nan
                 /\ overall.d = 1
                 /\ 2 * Abs(overall.n * WeightedDen(r) - WeightedNum(r))
                        <= WeightedDen(r)

\* A score computed from sub-reports of which one has no column, one has an
\* error entry, and whose weighted sum is no whole number of hundredths.
C2_Witness ==
    /\ report.name = "calculate_data_quality_score"
    /\ ~SomeNaN(report.result)
    /\ DOMAIN report.result.codification_consistency = {}
    /\ \E c \in DOMAIN report.result.format_consistency :
           "error" \in DOMAIN report.result.format_consistency[c]
    /\ WeightedNum(report.result) % WeightedDen(report.result) # 0
    /\ WeightedNum(report.result) > 0

\* C3: quality_level is the tier of the report's own overall_quality_score.
C3_LevelMatchesReportedScore ==
    HasQualityScore =>
        LET q == report.result.quality_score
            reported == q.overall_quality_score
        IN  q.quality_level =
                (IF ~reported.nan /\ reported.n >= 9000 THEN "Excellent"
                 ELSE IF ~reported.nan /\ reported.n >= 8000 THEN "Good"
                 ELSE IF ~reported.nan /\ reported.n >= 7000 THEN "Fair"
                 ELSE IF ~reported.nan /\ reported.n >= 6000 THEN "Poor"
                 ELSE "Very Poor")

\* The rows of d that repeat the key of an earlier row.
LaterOccurrences(d, subset) ==
    {i \in Rows(d) : \E j \in Rows(d) :
        j < i /\ \A c \in KeyCols(d, subset) : d.rows[j][c] = d.rows[i][c]}

C4_Counts ==
    LET r == report.result
    IN  /\ r.total_rows = Len(df.rows)
        /\ r.duplicate_count = Cardinality(LaterOccurrences(df, report.arg))
        /\ r.unique_rows = r.total_rows - r.duplicate_count

\* C4 as claimed: duplicate_count counts the later occurrences, unique_rows
\* is the rest, uniqueness_score = 100 x unique_rows / total_rows.
C4_UniquenessExact ==
    report.name = "check_duplicates" =>
        LET r == report.result
        IN  /\ C4_Counts
            /\ IF r.total_rows = 0 THEN r.uniqueness_score.nan
               ELSE /\ ~r.uniqueness_score.nan
                    /\ r.uniqueness_score.n * r.total_rows
                           = 100 * 100 * (r.total_rows - r.duplicate_count)

\* C4 as amended: the same, the score rounded to two decimals (NaN, the
\* value of 0 / 0, for a dataset without rows).
C4_UniquenessRounded ==
    report.name = "check_duplicates" =>
        LET r == report.result
        IN  /\ C4_Counts
            /\ IF r.total_rows = 0 THEN r.uniqueness_score.nan
               ELSE /\ ~r.uniqueness_score.nan
                    /\ r.uniqueness_score.d = 1
                    /\ 2 * Abs(r.uniqueness_score.n * r.total_rows
                               - 100 * 100 * (r.total_rows - r.duplicate_count))
                           <= r.total_rows

\* Three rows, the key of the first repeated twice on a subset key: two
\* duplicates, score 33.33.
C4_Witness ==
    /\ report.name = "check_duplicates"
    /\ ~report.arg.none
    /\ report.result.total_rows = 3
    /\ report.result.duplicate_count = 2
    /\ report.result.uniqueness_score = Fin(3333)
    /\ df.rows[1] # df.rows[2]

----------------------------------------------------------------------------
(* Properties of the Improver *)

FirstOccurrences(d, subset) == Rows(d) \ LaterOccurrences(d, subset)

\* The k-th smallest element of a set of row numbers.
Nth(S, k) == CHOOSE i \in S : Cardinality({j \in S : j <= i}) = k

\* C5: remove_duplicates returns exactly the rows that are the first
\* occurrence of their key, in their original order; a dataset without
\* repeated key comes back unchanged.
C5_KeepsFirstOccurrences ==
    op.name = "remove_duplicates" =>
        LET keep == FirstOccurrences(inp, op.arg)
        IN  /\ df.cols = inp.cols
            /\ Len(df.rows) = Cardinality(keep)
            /\ \A k \in 1..Len(df.rows) : df.rows[k] = inp.rows[Nth(keep, k)]
            /\ LaterOccurrences(inp, op.arg) = {} => df = inp

\* Three rows deduplicated on a subset key: the third repeats the key of the
\* first but is another row; the first two are returned in order.
C5_Witness ==
    /\ op.name = "remove_duplicates"
    /\ ~op.arg.none
    /\ Len(inp.rows) = 3
    /\ inp.rows[3] # inp.rows[1]
    /\ RowKey(inp, op.arg, 3) = RowKey(inp, op.arg, 1)
    /\ df.rows = <<inp.rows[1], inp.rows[2]>>

\* C6: remove_duplicates applied to its own result, with the same key,
\* returns that result.
C6_Idempotent ==
    op.name = "remove_duplicates" =>
        remove_duplicates(df, log, op.arg).df = df

\* A call that removed two of three rows of one key.
C6_Witness ==
    /\ op.name = "remove_duplicates"
    /\ Len(inp.rows) = 3
    /\ Len(df.rows) = 1
    /\ Len(log) = 1

\* C7: on a dataset with rows, remove_duplicates removes as many rows as
\* check_duplicates counted on it with the same key, and check_duplicates on
\* the result counts 0 duplicates and scores 100.
C7_EvaluatorAgrees ==
    (op.name = "remove_duplicates" /\ Len(inp.rows) > 0) =>
        /\ (before.name = "check_duplicates" /\ before.arg = op.arg)
               => Len(inp.rows) - Len(df.rows) = before.result.duplicate_count
        /\ (report.name = "check_duplicates" /\ report.arg = op.arg)
               => /\ report.result.duplicate_count = 0
                  /\ report.result.uniqueness_score = Fin(100 * 100)

\* check_duplicates counted 2 duplicates, remove_duplicates ran, and
\* check_duplicates was called on the result.
C7_Witness ==
    /\ op.name = "remove_duplicates"
    /\ before.name = "check_duplicates"
    /\ before.arg = op.arg
    /\ before.result.duplicate_count = 2
    /\ report.name = "check_duplicates"
    /\ report.arg = op.arg

Targeted(strategies) == {strategies[k][1] : k \in DOMAIN strategies}

MissingCount(d, col) == Cardinality(Rows(d) \ NonNull(d, col))

Untargeted(named) ==
    /\ df.cols = inp.cols
    /\ Len(df.rows) = Len(inp.rows)
    /\ \A col \in Range(inp.cols) \ named : Column(df, col) = Column(inp, col)

\* C8 as claimed: after improve_completeness every present column named in
\* strategies has no missing value, whatever its strategy, and the other
\* columns are as before.
C8_AllTargetedFilled ==
    (op.name = "improve_completeness" /\ ~op.raised) =>
        /\ \A k \in DOMAIN op.arg :
               HasColumn(inp, op.arg[k][1]) => MissingCount(df, op.arg[k][1]) = 0
        /\ Untargeted(Targeted(op.arg))

\* C8 as amended: no missing value is left with mode and custom_<value>, and
\* with mean when the column had a value; forward_fill leaves missing exactly
\* the entries before the column's first value; the columns not named are as
\* before.
C8_TargetedFilledByStrategy ==
    (op.name = "improve_completeness" /\ ~op.raised) =>
        /\ \A k \in DOMAIN op.arg :
               LET col == op.arg[k][1]
                   strategy == op.arg[k][2]
               IN  HasColumn(inp, col) =>
                       IF strategy \in {"mode", "custom_0", "custom_INCONNU"}
                       THEN MissingCount(df, col) = 0
                       ELSE IF strategy = "mean" /\ NonNull(inp, col) # {}
                       THEN MissingCount(df, col) = 0
                       ELSE strategy = "forward_fill" =>
                                \A i \in Rows(df) :
                                    isnull(df.rows[i][col])
                                        <=> \A j \in 1..i : isnull(inp.rows[j][col])
        /\ Untargeted(Targeted(op.arg))

\* The mean of the two values of NB_KW_Jour fills its missing entry; the
\* missing entries of CSP, not named, stay.
C8_Witness ==
    /\ op.name = "improve_completeness"
    /\ op.arg = <<<<"NB_KW_Jour", "mean">>>>
    /\ Len(inp.rows) = 3
    /\ MissingCount(inp, "NB_KW_Jour") = 1
    /\ MissingCount(df, "NB_KW_Jour") = 0
    /\ MissingCount(df, "CSP") > 0

\* C9: after normalize_codification no key of the mapping is left in the
\* column, every key was replaced by its mapped value, and every other
\* value, a missing one included, is what it was.
C9_CodificationClosure ==
    op.name = "normalize_codification" =>
        \A k \in DOMAIN op.arg :
            LET col == op.arg[k][1]
                mapping == op.arg[k][2]
                IsKey(c) == c.k = "str" /\ c.s \in DOMAIN mapping
            IN  HasColumn(inp, col) =>
                    \A i \in Rows(inp) :
                        /\ ~IsKey(df.rows[i][col])
                        /\ IsKey(inp.rows[i][col])
                               => df.rows[i][col] = Str(mapping[inp.rows[i][col].s])
                        /\ ~IsKey(inp.rows[i][col])
                               => df.rows[i][col] = inp.rows[i][col]

\* The dataset after the first k rules, applied one at a time, each to the
\* dataset the one before returned.
RECURSIVE AfterRules(_, _, _)
AfterRules(d, rules, k) ==
    IF k = 0 THEN d
    ELSE apply_business_rules(AfterRules(d, rules, k - 1), <<>>, <<rules[k]>>).df

\* C10: apply_business_rules applies the rules in list order, each predicate
\* evaluated on the dataset as the earlier rules left it: the result is that
\* of applying the rules one after the other, and the last rule has acted on
\* exactly the rows its predicate matches after the earlier rules.
C10_RulesInOrder ==
    op.name = "apply_business_rules" =>
        LET rules == op.arg
            last == rules[Len(rules)]
            earlier == AfterRules(inp, rules, Len(rules) - 1)
            after == AfterRules(inp, rules, Len(rules))
        IN  /\ df.cols = after.cols
            /\ df.rows = after.rows
            /\ ~EvalRaises(earlier, last.condition) =>
                   \A i \in Rows(df) :
                       IF i \in eval(earlier, last.condition)
                       THEN last.action.type \in {"set_value", "flag"}
                                => df.rows[i][last.action.column]
                                       = Held(last.action.value,
                                              dtype(df, last.action.column))
                       ELSE \A c \in Range(earlier.cols) :
                                df.rows[i][c] = earlier.rows[i][c]

\* rescale_negative turned a -12 into 60 and flag_high_consumption, second in
\* the list, flagged that row; the list in the other order gives another
\* dataset.
C10_Witness ==
    /\ op.name = "apply_business_rules"
    /\ op.arg = <<rescale_negative, flag_high_consumption>>
    /\ \E i \in Rows(inp) :
           /\ inp.rows[i]["NB_KW_Jour"] = Num(-12)
           /\ df.rows[i]["NB_KW_Jour"] = Num(60)
           /\ HasColumn(df, "High_Consumption_Flag")
           /\ df.rows[i]["High_Consumption_Flag"] = Bool(TRUE)
    /\ apply_business_rules(inp, <<>>, <<flag_high_consumption, rescale_negative>>).df.cols
           # df.cols

----------------------------------------------------------------------------
(* Properties of errors, determinism and effects *)

\* The condition of the rule cannot be evaluated on d: it is no expression,
\* or it names a column d has not.
ConditionFails(d, rule) ==
    \/ rule.condition.kind = "malformed"
    \/ ~HasColumn(d, rule.condition.column)

Without(rules, k) == SubSeq(rules, 1, k - 1) \o SubSeq(rules, k + 1, Len(rules))

SameDataset(a, b) == a.cols = b.cols /\ a.rows = b.rows

\* The entries a step appended to the log.
Appended == SubSeq(log', Len(log) + 1, Len(log'))

\* C11: when the condition of a rule fails, apply_business_rules does not
\* raise, appends one business_rule_error entry naming the rule, leaves the
\* dataset as the earlier rules left it and applies the later rules: the
\* dataset returned is that of the list without the failing rule.
C11_RuleErrorSkipped ==
    [][(op'.name = "apply_business_rules" /\ steps' = steps + 1) =>
          /\ ~op'.raised
          /\ \A k \in DOMAIN op'.arg :
                 LET rules == op'.arg
                     earlier == AfterRules(df, rules, k - 1)
                 IN  ConditionFails(earlier, rules[k]) =>
                         /\ SameDataset(AfterRules(df, rules, k), earlier)
                         /\ Cardinality({i \in DOMAIN Appended :
                                /\ Appended[i].action = "business_rule_error"
                                /\ Appended[i].details = <<rules[k].name>>}) = 1
                         /\ SameDataset(df',
                                apply_business_rules(df, <<>>, Without(rules, k)).df)
      ]_vars

\* rescale_negative turned a -12 into 60, flag_senior failed on the absent
\* column Age and was logged, and flag_high_consumption flagged the row.
C11_Witness ==
    /\ op.name = "apply_business_rules"
    /\ op.arg = <<rescale_negative, flag_senior, flag_high_consumption>>
    /\ ~op.raised
    /\ Len(log) = 3
    /\ log[2].action = "business_rule_error"
    /\ log[2].details = <<"flag_senior">>
    /\ log[3].action = "business_rule"
    /\ HasColumn(df, "High_Consumption_Flag")
    /\ \E i \in Rows(df) : df.rows[i]["High_Consumption_Flag"] = Bool(TRUE)

\* C13: two calls of generate_quality_report on the same dataset with the
\* same source_name return reports equal in every field.
C13_SameReportTwice ==
    previous.name = "generate_quality_report" =>
        /\ report.arg = previous.arg
        /\ report.result = previous.result

\* C12: each of the five operations of the Improver returns normally, with
\* a dataset, for every dataset and every configuration; none raises.
C12_NeverRaises == ~op.raised

\* C14: no operation changes the dataset the caller passed in: after each
\* call of the Improver the frame object the caller passed (kept, read from
\* the frames of the call when it ends) has the rows, columns, values and
\* dtypes it had when passed (inp), and an Evaluator call leaves the
\* caller's dataset as it is.
C14_InputUnchanged ==
    [][/\ SameDataset(kept', inp')
       /\ kept'.dtypes = inp'.dtypes
       /\ (report' # report /\ report' # NoReport) => SameDataset(df', df)
      ]_vars

\* apply_business_rules, the last of the five calls of the demonstration,
\* returned a dataset with other values, and the final report was made on it
\* afterwards.
C14_Witness ==
    /\ op.name = "apply_business_rules"
    /\ steps = DemoImproverCalls
    /\ df.rows # inp.rows
    /\ SameDataset(kept, inp)
    /\ report # NoReport

\* C15: the improvement log is append-only: every operation of the Improver
\* and every summary call leaves the earlier log as the beginning of the
\* log, so a log with entries never becomes empty.
C15_LogAppendOnly ==
    [][/\ Len(log') >= Len(log)
       /\ SubSeq(log', 1, Len(log)) = log
       /\ log # <<>> => log' # <<>>
      ]_vars

\* A second operation has added entries to those of the first, and a summary
\* was taken in between.
C15_Witness ==
    /\ steps = 2
    /\ summary # NoSummary
    /\ summary.total_improvements > 0
    /\ Len(log) > summary.total_improvements
    /\ log[1].action # log[Len(log)].action

\* The sum of the counts f[c] for c in S.
RECURSIVE SumCounts(_, _)
SumCounts(f, S) ==
    IF S = {} THEN 0
    ELSE LET c == CHOOSE x \in S : TRUE
         IN  f[c] + SumCounts(f, S \ {c})

\* C16: get_improvement_summary returns total_improvements = the number of
\* log entries and by_category = the number of entries of each category of
\* the log, which sum to total_improvements; the call leaves the log and
\* the dataset as they are.
C16_SummaryCountsLog ==
    [][op'.name = "get_improvement_summary" =>
          LET categories == {log[i].action : i \in DOMAIN log}
              counts == summary'.by_category
          IN  /\ summary'.total_improvements = Len(log)
              /\ DOMAIN counts = categories
              /\ \A c \in categories :
                     counts[c] = Cardinality({i \in DOMAIN log : log[i].action = c})
              /\ SumCounts(counts, DOMAIN counts) = summary'.total_improvements
              /\ log' = log
              /\ SameDataset(df', df)
      ]_vars

\* A summary of a log of three entries in two categories, after two
\* operations.
C16_Witness ==
    /\ op.name = "get_improvement_summary"
    /\ steps = 2
    /\ summary.total_improvements = 3
    /\ Cardinality(DOMAIN summary.by_category) = 2
    /\ \E c \in DOMAIN summary.by_category : summary.by_category[c] = 2

\* C17: calculate_data_quality_score takes sub-report maps without column:
\* such a dimension counts 0, and without format-checked and
\* codification-checked column the overall score is at most 55.
C17_EmptyDimensionsCountZero ==
    (/\ report.name = "calculate_data_quality_score"
     /\ report.arg[2] = {}
     /\ report.arg[3] = {}) =>
        LET q == report.result.quality_score
        IN  /\ q.format_score = Fin(0)
            /\ q.codification_score = Fin(0)
            /\ report.arg[1] = {} => q.completeness_score = Fin(0)
            /\ InRange(q.overall_quality_score)
            /\ q.overall_quality_score.n <= 55 * 100 * q.overall_quality_score.d

\* str(value) of the cell of row i in column col.
StringForm(d, col, i) == astype_str(d.rows[i][col]).s

\* C18: with valid_codes given, check_codification_consistency counts a
\* non-missing value as valid iff its string form is in valid_codes, leaves
\* the missing values out of total_values, gives codification_score =
\* 100 x valid / total_values (to two decimals), valid + invalid =
\* total_values, and lists every distinct invalid value once.
C18_ValidIffStringFormInCodes ==
    (/\ report.name = "check_codification_consistency"
     /\ report.arg[2] # {}
     /\ "error" \notin DOMAIN report.result) =>
        LET r == report.result
            column == report.arg[1]
            valid_codes == report.arg[2]
            series == NonNull(df, column)
            valid == {i \in series : StringForm(df, column, i) \in valid_codes}
            invalid == {df.rows[i][column] : i \in series \ valid}
        IN  /\ r.total_values = Cardinality(series)
            /\ r.valid_codes_count = Cardinality(valid)
            /\ r.valid_codes_count + r.invalid_codes_count = r.total_values
            /\ ~r.codification_score.nan
            /\ 2 * Abs(r.codification_score.n * r.total_values
                       - 100 * 100 * Cardinality(valid) * r.codification_score.d)
                   <= r.total_values * r.codification_score.d
            /\ Range(r.invalid_values) = invalid
            /\ Len(r.invalid_values) = Cardinality(invalid)

\* C19: standardize_format with a text rule leaves every missing value of
\* the column missing, so the missing count of the column is unchanged.
C19_MissingStaysMissing ==
    op.name = "standardize_format" =>
        \A k \in DOMAIN op.arg :
            LET col == op.arg[k][1]
                rule == op.arg[k][2]
            IN  (rule.kind \in TextRules /\ HasColumn(inp, col)) =>
                    /\ \A i \in Rows(inp) :
                           isnull(inp.rows[i][col]) => isnull(df.rows[i][col])
                    /\ MissingCount(df, col) = MissingCount(inp, col)

BuiltinStrategies == {"mean", "mode", "forward_fill"}

\* The column after its missing entries got the string value.
FilledWith(col, value) ==
    \A i \in Rows(inp) :
        df.rows[i][col] = IF isnull(inp.rows[i][col]) THEN Str(value)
                          ELSE inp.rows[i][col]

\* C20 as claimed: a strategy other than mean, mode and forward_fill is a
\* literal fill value (custom_<value> read as <value>): every missing entry
\* of the column gets it, the other entries stay.
C20_AnyOtherStrategyFills ==
    (op.name = "improve_completeness" /\ ~op.raised) =>
        \A k \in DOMAIN op.arg :
            LET col == op.arg[k][1]
                strategy == op.arg[k][2]
            IN  (strategy \notin BuiltinStrategies /\ HasColumn(inp, col)) =>
                    FilledWith(col, IF strategy = "custom_0" THEN "0"
                                    ELSE IF strategy = "custom_INCONNU" THEN "INCONNU"
                                    ELSE strategy)

\* C20 as amended: a strategy custom_<value> gives every missing entry of the
\* column the string <value> and leaves the other entries; a strategy that
\* is neither mean, mode, forward_fill nor custom_<value> fills nothing.
C20_CustomStrategyFills ==
    (op.name = "improve_completeness" /\ ~op.raised) =>
        \A k \in DOMAIN op.arg :
            LET col == op.arg[k][1]
                strategy == op.arg[k][2]
            IN  (strategy \notin BuiltinStrategies /\ HasColumn(inp, col)) =>
                    IF strategy = "custom_0" THEN FilledWith(col, "0")
                    ELSE IF strategy = "custom_INCONNU" THEN FilledWith(col, "INCONNU")
                    ELSE Column(df, col) = Column(inp, col)

\* custom_0 filled the two missing entries of CSP with "0" next to a value
\* that stayed.
C20_Witness ==
    /\ op.name = "improve_completeness"
    /\ op.arg = <<<<"CSP", "custom_0">>>>
    /\ Len(inp.rows) = 3
    /\ MissingCount(inp, "CSP") = 2
    /\ \E i \in Rows(inp) : inp.rows[i]["CSP"] = Str("cadre")
    /\ MissingCount(df, "CSP") = 0
    /\ \E i \in Rows(df) : df.rows[i]["CSP"] = Str("0")

----------------------------------------------------------------------------
(* Properties of filling, skipping and logging *)

\* C21: with forward_fill a missing entry that has a non-missing entry
\* before it gets the value of the nearest one, an entry before the first
\* value of the column stays missing, and the values stay.
C21_ForwardFillNearest ==
    (op.name = "improve_completeness" /\ ~op.raised) =>
        \A k \in DOMAIN op.arg :
            LET col == op.arg[k][1]
                Valid(i) == {j \in 1..i : ~isnull(inp.rows[j][col])}
            IN  (op.arg[k][2] = "forward_fill" /\ HasColumn(inp, col)) =>
                    \A i \in Rows(inp) :
                        IF Valid(i) = {} THEN isnull(df.rows[i][col])
                        ELSE df.rows[i][col] =
                                 inp.rows[CHOOSE j \in Valid(i) :
                                              \A h \in Valid(i) : h <= j][col]

\* CSP = '1', 'cadre', missing: the third entry gets 'cadre'; and a column
\* whose first entry is missing keeps it missing.
C21_Witness ==
    /\ op.name = "improve_completeness"
    /\ op.arg = <<<<"CSP", "forward_fill">>>>
    /\ Len(inp.rows) = 3
    /\ Column(inp, "CSP") = <<Str("1"), Str("cadre"), NaN>>
    /\ Column(df, "CSP") = <<Str("1"), Str("cadre"), Str("cadre")>>

\* C22: a check that refers to a column the dataset does not have
\* (check_completeness with a list of columns, check_format_consistency,
\* check_codification_consistency), or to a column without a non-missing
\* value, returns a result that says so and raises nothing.
C22_AbsentColumnExplicitResult ==
    LET NoData(col) == ~HasColumn(df, col) \/ NonNull(df, col) = {}
    IN  /\ (report.name = "check_completeness"
             /\ \E col \in report.arg : ~HasColumn(df, col)) =>
                "raised" \notin DOMAIN report.result
        /\ (report.name = "check_format_consistency" /\ NoData(report.arg)) =>
                DOMAIN report.result = {"error"}
        /\ (report.name = "check_codification_consistency"
             /\ NoData(report.arg[1])) =>
                DOMAIN report.result = {"error"}

\* The entries of a call's configuration whose column the dataset has.
Present(d, config) == {k \in DOMAIN config : HasColumn(d, config[k][1])}

\* C23: improve_completeness, standardize_format and normalize_codification
\* skip a configured column the dataset does not have: the call does not
\* raise, logs nothing about that column and adds no column; a call that
\* names only such columns returns a dataset equal to its input and leaves
\* the log as it was.
C23_AbsentColumnsSkipped ==
    [][\A name \in {"improve_completeness", "standardize_format",
                     "normalize_codification"} :
          (op'.name = name /\ steps' = steps + 1
           /\ \E k \in DOMAIN op'.arg : ~HasColumn(inp', op'.arg[k][1])) =>
              /\ ~op'.raised
              /\ df'.cols = inp'.cols
              /\ Len(Appended) <= Cardinality(Present(inp', op'.arg))
              /\ \A e \in Range(Appended) : HasColumn(inp', e.details[1])
              /\ Present(inp', op'.arg) = {} =>
                     (SameDataset(df', inp') /\ log' = log)]_vars

\* A call that names only the absent column Nom, on a dataset with a missing
\* CSP value.
C23_Witness ==
    /\ op.name \in {"improve_completeness", "standardize_format",
                     "normalize_codification"}
    /\ Present(inp, op.arg) = {}
    /\ Len(inp.rows) = 2
    /\ isnull(inp.rows[1]["CSP"])
    /\ SameDataset(df, inp)

\* C24: the fixed sequence of improve_data_quality with the preset
\* configuration never lowers the quality: the overall score of the improved
\* dataset is at least the overall score of the dataset as read.
C24_SequenceNeverLowersScore ==
    etl.pc = "reevaluated" =>
        LET score_before == etl.report_before.quality_score.overall_quality_score
            score_after == etl.report_after.quality_score.overall_quality_score
        IN  ~score_after.nan /\ score_after.n >= score_before.n

\* The overall scores of the two reports of a run of process_source.
ScoreBefore == etl.report_before.quality_score.overall_quality_score
ScoreAfter == etl.report_after.quality_score.overall_quality_score

\* C25: after the improvement sequence with the population configuration
\* (completeness, format, codification, business rules with the rule that
\* sets CSP to "0"), every CSP value is one of "0", "1", "2", "3", "4" and
\* none is missing.
C25_CSPCodesAfterImprovement ==
    (etl.pc \in {"improved", "reevaluated", "done"} /\ etl.improved
     /\ contains_population(etl.source_name)) =>
        \A i \in Rows(etl.df_improved) :
            LET c == etl.df_improved.rows[i]["CSP"]
            IN  ~isnull(c) /\ c.k = "str" /\ c.s \in {"0"} \cup CSPValidCodes

\* A population dataset with a label, a missing value and a code.
C25_Witness ==
    /\ etl.pc = "improved"
    /\ contains_population(etl.source_name)
    /\ Column(etl.df_original, "CSP") = <<Str("cadre"), NaN, Str("1")>>
    /\ Column(etl.df_improved, "CSP") = <<Str("1"), Str("0"), Str("1")>>

\* The overall score of the 'before' evaluation of the dataset as read,
\* whether or not process_source got the report back.
ComputedScoreBefore ==
    generate_quality_report(etl.df_original, etl.source_name \o "_before")
        .quality_score.overall_quality_score

\* C26: process_source calls the Improver and computes an 'after' report
\* exactly when the 'before' overall score is below 99.0; the 'after' report
\* is computed after the improvement, on the improved dataset; a dataset at
\* or above the threshold is saved as read, with score_after = score_before,
\* improvement 0 and meets_threshold true.
C26_ImprovedIffBelowThreshold ==
    LET below == ~ComputedScoreBefore.nan /\ ComputedScoreBefore.n < 9900
        ended == etl.pc \in {"done", "raised"} /\ etl.exists
    IN  /\ etl.pc \in {"improved", "reevaluated"} => (etl.improved /\ below)
        /\ ended =>
               /\ etl.improved <=> below
               /\ etl.report_after # NoReport <=> below
        /\ etl.report_after # NoReport =>
               /\ etl.improved
               /\ etl.report_after.dataset_info.total_rows = Len(etl.df_improved.rows)
               /\ etl.report_after.completeness =
                      check_completeness(etl.df_improved, Range(etl.df_improved.cols))
               /\ etl.report_after.duplicates = check_duplicates(etl.df_improved, None)
        /\ (ended /\ below) => SameDataset(etl.saved.data, etl.df_improved)
        /\ (ended /\ ~ComputedScoreBefore.nan /\ ComputedScoreBefore.n >= 9900) =>
               /\ SameDataset(etl.saved.data, etl.df_original)
               /\ SameDataset(etl.saved.data, df)
               /\ etl.result.score_after = etl.result.score_before
               /\ etl.result.score_before = ScoreBefore
               /\ etl.result.improvement = Fin(0)
               /\ etl.result.meets_threshold = TRUE

\* C27: each of the five operations of the Improver appends to the log only
\* when it changed a value or a row: a call that returns a dataset equal to
\* its input leaves the log as it was.
C27_LogsOnlyOnEffect ==
    [][(/\ steps' = steps + 1
        /\ op'.name \in {"remove_duplicates", "improve_completeness",
                          "standardize_format", "normalize_codification",
                          "apply_business_rules"}
        /\ ~op'.raised
        /\ SameDataset(df', inp')) => log' = log]_vars

\* C28: remove_duplicates appends exactly one 'duplicates' entry, with the
\* number of rows removed, when it removed a row, and leaves the log as it
\* was when it removed none; run again on the dataset it returned, it changes
\* neither the dataset nor the log.
C28_DuplicatesLoggedOnce ==
    [][(op'.name = "remove_duplicates" /\ steps' = steps + 1) =>
          LET removed == Len(inp'.rows) - Len(df'.rows)
          IN  /\ removed > 0 =>
                     /\ Len(Appended) = 1
                     /\ Appended[1].action = "duplicates"
                     /\ Appended[1].details[1] = removed
              /\ removed = 0 => (log' = log /\ SameDataset(df', inp'))
              /\ (op.name = "remove_duplicates" /\ op.arg = op'.arg) =>
                     (log' = log /\ SameDataset(df', df))]_vars

\* remove_duplicates removed one row of two and logged it; run again, it
\* left the dataset and the log.
C28_Witness ==
    /\ op.name = "remove_duplicates"
    /\ steps = 2
    /\ Len(log) = 1
    /\ log[1].action = "duplicates"
    /\ log[1].details[1] = 1
    /\ Len(df.rows) = 1
    /\ SameDataset(df, inp)

\* C29: improve_completeness appends exactly one 'completeness' entry for
\* each configured column that the dataset has and that has a missing value,
\* and the number of filled values the entry states is the number of entries
\* of the column that were missing before the call and are not after it.
C29_FilledCountLogged ==
    [][(op'.name = "improve_completeness" /\ steps' = steps + 1 /\ ~op'.raised) =>
          LET processed ==
                  SelectSeq(op'.arg, LAMBDA e :
                      HasColumn(inp', e[1]) /\ MissingCount(inp', e[1]) > 0)
              Filled(col) == {i \in Rows(inp') : /\ isnull(inp'.rows[i][col])
                                                  /\ ~isnull(df'.rows[i][col])}
          IN  /\ Len(Appended) = Len(processed)
              /\ \A k \in DOMAIN processed :
                     /\ Appended[k].action = "completeness"
                     /\ Appended[k].details[1] = processed[k][1]
                     /\ Appended[k].details[2] = Cardinality(Filled(processed[k][1]))]_vars

\* The rows, their order and the columns of the input are kept, and a cell
\* that changed is in the target column of a rule, on a row the rule's
\* predicate matched when the rule was applied.
OnlyTargetedCellsChange ==
    LET rules == op.arg
        Matched(k, i) ==
            LET earlier == AfterRules(inp, rules, k - 1)
            IN  /\ ~EvalRaises(earlier, rules[k].condition)
                /\ i \in eval(earlier, rules[k].condition)
    IN  /\ Len(df.rows) = Len(inp.rows)
        /\ SubSeq(df.cols, 1, Len(inp.cols)) = inp.cols
        /\ \A i \in Rows(inp) : \A c \in Range(inp.cols) :
               df.rows[i][c] # inp.rows[i][c] =>
                   \E k \in DOMAIN rules : rules[k].action.column = c /\ Matched(k, i)

\* Every missing entry of the returned dataset was missing in the input.
NoMissingValueIntroduced ==
    \A i \in Rows(df) : \A c \in Range(df.cols) :
        isnull(df.rows[i][c]) => (HasColumn(inp, c) /\ isnull(inp.rows[i][c]))

\* C30: apply_business_rules changes only the cells it targets (the target
\* column of a rule on the rows matching its predicate), keeps the other
\* values, the number of rows and their order, and introduces no missing
\* value.
C30_OnlyTargetedAndNoMissing ==
    op.name = "apply_business_rules" =>
        (OnlyTargetedCellsChange /\ NoMissingValueIntroduced)

====
